---- MODULE Spec2Model ----
(***************************************************************************)
(* A model of the simulation engine (vrad.simulation._base.Simulation) and *)
(* of the subject container (vrad.data._base.Data).                        *)
(*                                                                         *)
(* Numbers.  NumPy's floating point values are modelled exactly, as        *)
(* triples <<n, d, r>> standing for (n / d) * sqrt(r), with d > 0,         *)
(* gcd(n, d) = 1 and r >= 1 square-free.  The square root is needed by     *)
(* np.std; the triples are closed under the operations standardize()       *)
(* applies.  <<0, 0, 1>> stands for every non-finite value (nan, +-inf):   *)
(* it is what a division by zero yields and it absorbs every operation.    *)
(* Rounding (float64, and float32 of the time series) is not modelled.     *)
(***************************************************************************)
EXTENDS Integers, Sequences, FiniteSets, TLC

\* ------------------------------------------------------------------ bounds

\* n_samples ranges over 1..MaxSamples
MaxSamples == 2
\* n_channels ranges over 1..MaxChannels
MaxChannels == 2
\* n_states ranges over 1..MaxStates
MaxStates == 2
\* random_seed ranges over 0..MaxSeed
MaxSeed == 0

\* ----------------------------------------------------------------- numbers

Abs(a) == IF a < 0 THEN -a ELSE a

RECURSIVE GCD(_, _)
GCD(a, b) == IF b = 0 THEN a ELSE GCD(b, a % b)

\* the largest t >= best with t * t dividing n, among the t >= s or best
RECURSIVE SquarePartFrom(_, _, _)
SquarePartFrom(n, s, best) ==
    IF s * s > n THEN best
    ELSE SquarePartFrom(n, s + 1, IF n % (s * s) = 0 THEN s ELSE best)

\* the largest s with s * s dividing n (n >= 1)
SquarePart(n) == SquarePartFrom(n, 2, 1)

NonFinite == <<0, 0, 1>>
Zero == <<0, 1, 1>>
One == <<1, 1, 1>>

IsFinite(x) == x[2] # 0

\* the normal form of (n / d) * sqrt(r), for r >= 0
Mk(n, d, r) ==
    IF d = 0 THEN NonFinite
    ELSE IF n = 0 \/ r = 0 THEN Zero
    ELSE LET s  == SquarePart(r)
             rr == r \div (s * s)
             nn == (IF d < 0 THEN -n ELSE n) * s
             dd == Abs(d)
             g  == GCD(Abs(nn), dd)
         IN  <<nn \div g, dd \div g, rr>>

Num(n) == Mk(n, 1, 1)

NNeg(x) == IF IsFinite(x) THEN <<-x[1], x[2], x[3]>> ELSE NonFinite

\* x + y; two finite non-zero summands share their surd in every sum the
\* program forms (a column of one channel, one entry over the states)
NAdd(x, y) ==
    CASE ~IsFinite(x) \/ ~IsFinite(y) -> NonFinite
      [] x = Zero -> y
      [] y = Zero -> x
      [] x[3] = y[3] ->
            LET g == GCD(x[2], y[2])
            IN  Mk(x[1] * (y[2] \div g) + y[1] * (x[2] \div g),
                   (x[2] \div g) * y[2], x[3])

NSub(x, y) == NAdd(x, NNeg(y))

\* (the factors are cancelled crosswise before they are multiplied)
NMul(x, y) ==
    IF ~IsFinite(x) \/ ~IsFinite(y) THEN NonFinite
    ELSE IF x = Zero \/ y = Zero THEN Zero
    ELSE LET g1 == GCD(Abs(x[1]), y[2])
             g2 == GCD(Abs(y[1]), x[2])
             \* sqrt(r) * sqrt(s) = g * sqrt((r / g) * (s / g)), g = gcd(r, s)
             g3 == GCD(x[3], y[3])
         IN  Mk((x[1] \div g1) * (y[1] \div g2) * g3,
                (x[2] \div g2) * (y[2] \div g1),
                (x[3] \div g3) * (y[3] \div g3))

\* x / y; a zero divisor gives nan or +-inf
\* 1 / ((n / d) * sqrt(r)) = (d / (n * r)) * sqrt(r)
NDiv(x, y) ==
    IF ~IsFinite(x) \/ ~IsFinite(y) \/ y = Zero THEN NonFinite
    ELSE NMul(x, Mk(y[2], y[1] * y[3], y[3]))

\* sqrt(x) of a rational x >= 0
NSqrt(x) ==
    IF ~IsFinite(x) \/ x[1] < 0 THEN NonFinite
    ELSE LET a == SquarePart(x[1])
             b == SquarePart(x[2])
             q == x[2] \div (b * b)
         IN  \* sqrt(a^2 p / (b^2 q)) = (a / (b q)) * sqrt(p q)
             IF x = Zero THEN Zero
             ELSE Mk(a, b * q, (x[1] \div (a * a)) * q)

RECURSIVE NSum(_)
NSum(s) == IF s = <<>> THEN Zero ELSE NAdd(Head(s), NSum(Tail(s)))

\* ------------------------------------------------------------------ arrays

\* None, and an attribute that holds it
None == <<>>

\* np.mean(a, axis=0) of column c of a (T, C) array
ColMean(a, c) == NDiv(NSum([t \in 1..Len(a) |-> a[t][c]]), Num(Len(a)))

\* np.std(a, axis=0) of column c: sqrt(mean(abs(x - mean(x)) ** 2))
ColStd(a, c) ==
    LET m == ColMean(a, c)
        dev(t) == NSub(a[t][c], m)
    IN  NSqrt(NDiv(NSum([t \in 1..Len(a) |-> NMul(dev(t), dev(t))]),
                   Num(Len(a))))

\* x < y for rationals
NLess(x, y) == x[1] * y[2] < y[1] * x[2]

\* ------------------------------------------------- the random generator

\* np.random.default_rng(random_seed): the generator's state.  The generator
\* is a deterministic function of its seed; random_seed=None seeds it from
\* the system's entropy, that is with any state.
default_rng(random_seed) == random_seed % 16

\* the state after one more variate has been drawn
RngStep(s) == (5 * s + 3) % 16

RECURSIVE RngAfter(_, _)
RngAfter(s, k) == IF k = 0 THEN s ELSE RngAfter(RngStep(s), k - 1)

\* the i-th standard normal variate drawn from state s, an integer of -1..2
RngNormal(s, i) == (RngAfter(s, i) \div 4) - 1

\* ---------------------------------------------------------- Simulation

\* identity_factor: float = 0.0001, as 1 / IdentityFactorInv
IdentityFactorInv == 10000

\* the exceptions the operations raise, where the model tells two of a type
\* apart
NameErrorNotCreated == "NameError: time_series has not yet been created."
ValueErrorDimensions == "ValueError: All dimensions of input must be of equal length"
ValueErrorMeanCov == "ValueError: mean and cov must have same length"

\* Simulation.__getattr__ behind Python's attribute lookup: obj.attr.
\* obj is the instance's __dict__, a record of the attributes assigned so
\* far.  [err |-> "ok", val |-> v] or [err |-> the exception raised].
GetAttr(obj, attr) ==
    IF attr \in DOMAIN obj THEN [err |-> "ok", val |-> obj[attr]]
    ELSE IF attr = "time_series" THEN [err |-> NameErrorNotCreated]
    ELSE IF attr \in {"__deepcopy__", "__getstate__"}
         THEN [err |-> "AttributeError"]
    \* getattr(self.time_series, attr): self.time_series is looked up first
    ELSE IF "time_series" \notin DOMAIN obj THEN [err |-> NameErrorNotCreated]
    ELSE IF obj["time_series"] = None THEN [err |-> "AttributeError"]
    ELSE IF attr = "shape"
         THEN [err |-> "ok",
               val |-> <<Len(obj["time_series"]), Len(obj["time_series"][1])>>]
    ELSE [err |-> "AttributeError"]

\* the covariances without scaled_identity: W.W^T divided by its trace
CovariancesWithoutIdentity(W, K, C) ==
    LET WWt(k, i, j) == NSum([l \in 1..C |-> Num(W[k][i][l] * W[k][j][l])])
        trace(k) == NSum([i \in 1..C |-> WWt(k, i, i)])
    IN  [k \in 1..K |-> [i \in 1..C |-> [j \in 1..C |->
            NDiv(WWt(k, i, j), trace(k))]]]

\* tilde_cov_weights @ tilde_cov_weights.transpose([0, 2, 1])
\* + scaled_identity, divided by its trace; W[k][i][j] are integers
NormalisedCovariances(W, K, C) ==
    LET WWt(k, i, j) == NSum([l \in 1..C |-> Num(W[k][i][l] * W[k][j][l])])
        cov(k, i, j) == NAdd(WWt(k, i, j),
                             IF i = j THEN Mk(1, IdentityFactorInv, 1) ELSE Zero)
        trace(k) == NSum([i \in 1..C |-> cov(k, i, i)])
    IN  [k \in 1..K |-> [i \in 1..C |-> [j \in 1..C |->
            NDiv(cov(k, i, j), trace(k))]]]

\* Simulation.create_covariances(): [err, val, rng]
create_covariances(obj) ==
    LET K == obj.n_states
        C == obj.n_channels
        g == GetAttr(obj, "_rng")
    IN  IF obj.random_covariance_weights
        THEN IF g.err # "ok" THEN [err |-> g.err]
             ELSE [err |-> "ok",
                   val |-> NormalisedCovariances(
                       [k \in 1..K |-> [i \in 1..C |-> [j \in 1..C |->
                           RngNormal(g.val, ((k - 1) * C + (i - 1)) * C + j)]]],
                       K, C),
                   rng |-> RngAfter(g.val, K * C * C)]
        \* np.fill_diagonal of the (K, min(K,C), min(K,C)) slice: an array of
        \* more than two dimensions must have them all equal
        ELSE IF C < K THEN [err |-> ValueErrorDimensions]
        ELSE [err |-> "ok",
              val |-> NormalisedCovariances(
                  [k \in 1..K |-> [i \in 1..C |-> [j \in 1..C |->
                      IF i = k /\ j = k THEN 1 ELSE 0]]],
                  K, C)]

\* the row alpha is before the row beta in np.unique's (lexicographic) order
RECURSIVE RowLess(_, _)
RowLess(alpha, beta) ==
    IF alpha = <<>> THEN FALSE
    ELSE IF Head(alpha) = Head(beta) THEN RowLess(Tail(alpha), Tail(beta))
    ELSE NLess(Head(alpha), Head(beta))

\* np.unique(stc, axis=0): the distinct rows, sorted
RECURSIVE SortRows(_)
SortRows(rows) ==
    IF rows = {} THEN <<>>
    ELSE LET m == CHOOSE a \in rows : \A b \in rows \ {a} : RowLess(a, b)
         IN  <<m>> \o SortRows(rows \ {m})

UniqueRows(stc) == SortRows({stc[t] : t \in 1..Len(stc)})

\* np.any in the place of np.all
RowMaskAny(stc, alpha) == {t \in 1..Len(stc) : \E j \in 1..Len(alpha) : stc[t][j] = alpha[j]}

\* np.all(stc == alpha, axis=1): the timesteps it selects
RowMask(stc, alpha) == {t \in 1..Len(stc) : \A j \in 1..Len(alpha) : stc[t][j] = alpha[j]}

\* the number of selected timesteps up to t: t's place among them
MaskRank(mask, t) == Cardinality({u \in mask : u <= t})

\* mus_sim: self._rng.normal((n_states, n_channels)) passes the tuple as loc,
\* and gives one variate around each of its two entries
MusSim(obj) ==
    IF obj.sim_varying_means
    THEN <<Num(obj.n_states + RngNormal(obj._rng, 1)),
           Num(obj.n_channels + RngNormal(obj._rng, 2))>>
    ELSE [j \in 1..obj.n_states |-> [c \in 1..obj.n_channels |-> Zero]]

\* mus_sim.shape
MusSimShape(obj) ==
    IF obj.sim_varying_means THEN <<2>> ELSE <<obj.n_states, obj.n_channels>>

\* np.sum(mus_sim * alpha[:, np.newaxis], axis=0): a (2,) mus_sim broadcasts
\* against the (n_states, 1) column to (n_states, 2)
MixMean(obj, mus_sim, alpha) ==
    IF obj.sim_varying_means
    THEN [c \in 1..2 |->
            NSum([j \in 1..obj.n_states |-> NMul(mus_sim[c], alpha[j])])]
    ELSE [c \in 1..obj.n_channels |->
            NSum([j \in 1..obj.n_states |-> NMul(mus_sim[j][c], alpha[j])])]

\* np.sum(self.covariances * alpha[:, np.newaxis, np.newaxis], axis=0)
MixCovariance(obj, alpha) ==
    [i \in 1..obj.n_channels |-> [k \in 1..obj.n_channels |->
        NSum([j \in 1..obj.n_states |-> NMul(obj.covariances[j][i][k], alpha[j])])]]

MatrixFinite(m) == \A i \in 1..Len(m) : \A k \in 1..Len(m[i]) : IsFinite(m[i][k])

\* The loop over np.unique(stc, axis=0).  acc holds data_sim, the generator,
\* and for every timestep how often it was written and with which
\* parameters; acc.err stops the loop.  A variate drawn with mean mu is
\* modelled as mu + z for a standard variate z of the generator.
RECURSIVE GroupLoop(_, _, _, _)
GroupLoop(obj, mus_sim, alphas, acc) ==
    IF alphas = <<>> \/ acc.err # "ok" THEN acc
    ELSE LET alpha == Head(alphas)
             C     == obj.n_channels
             stc   == obj.state_time_course
             mu    == MixMean(obj, mus_sim, alpha)
             sigma == MixCovariance(obj, alpha)
             mask  == RowMask(stc, alpha)
             n     == Cardinality(mask)
             z(t, c) == RngNormal(acc.rng, (MaskRank(mask, t) - 1) * C + c)
         IN  \* multivariate_normal: "mean and cov must have same length"
             IF Len(mu) # C THEN [acc EXCEPT !.err = ValueErrorMeanCov]
             \* the SVD of a covariance with nan or inf does not converge
             ELSE IF ~MatrixFinite(sigma) THEN [acc EXCEPT !.err = "LinAlgError"]
             ELSE GroupLoop(obj, mus_sim, Tail(alphas),
                    [err    |-> "ok",
                     rng    |-> RngAfter(acc.rng, n * C),
                     data   |-> [t \in 1..Len(stc) |->
                                   IF t \in mask
                                   THEN [c \in 1..C |-> NAdd(mu[c], Num(z(t, c)))]
                                   ELSE acc.data[t]],
                     writes |-> [t \in 1..Len(stc) |->
                                   acc.writes[t] + IF t \in mask THEN 1 ELSE 0],
                     mu     |-> [t \in 1..Len(stc) |->
                                   IF t \in mask THEN mu ELSE acc.mu[t]],
                     sigma  |-> [t \in 1..Len(stc) |->
                                   IF t \in mask THEN sigma ELSE acc.sigma[t]]])

\* Simulation.simulate_data(): [err, val, rng, writes, mu, sigma, mus_sim]
simulate_data(obj) ==
    LET T == obj.n_samples
        C == obj.n_channels
        mus_sim == MusSim(obj)
        rng1 == IF obj.sim_varying_means THEN RngAfter(obj._rng, 2) ELSE obj._rng
        acc == GroupLoop(obj, mus_sim, UniqueRows(obj.state_time_course),
                 [err    |-> "ok",
                  rng    |-> rng1,
                  data   |-> [t \in 1..T |-> [c \in 1..C |-> Zero]],
                  writes |-> [t \in 1..T |-> 0],
                  mu     |-> [t \in 1..T |-> <<>>],
                  sigma  |-> [t \in 1..T |-> <<>>]])
        noise(t, c) == Num(obj.observation_error * RngNormal(acc.rng, (t - 1) * C + c))
    IN  IF acc.err # "ok" THEN [err |-> acc.err, rng |-> acc.rng]
        ELSE [err     |-> "ok",
              val     |-> [t \in 1..T |-> [c \in 1..C |->
                              NAdd(acc.data[t][c], noise(t, c))]],
              rng     |-> RngAfter(acc.rng, T * C),
              writes  |-> acc.writes,
              mu      |-> acc.mu,
              sigma   |-> acc.sigma,
              mus_sim |-> mus_sim,
              mus_shape |-> MusSimShape(obj)]

\* The rows a state time course is made of: row j of the identity (state j
\* alone) and, for two states j < k, the equal mixture of both.
MixtureRows(K) ==
    {[i \in 1..K |-> IF i = j THEN One ELSE Zero] : j \in 1..K}
    \cup {[i \in 1..K |-> IF i = p[1] \/ i = p[2] THEN Mk(1, 2, 1) ELSE Zero] :
            p \in {q \in (1..K) \X (1..K) : q[1] < q[2]}}

\* Simulation.generate_states() of a subclass that draws every row with the
\* instance's generator: [val, rng]
generate_states(obj) ==
    LET rows == SortRows(MixtureRows(obj.n_states))
    IN  [val |-> [t \in 1..obj.n_samples |->
                    rows[(RngAfter(obj._rng, t) % Len(rows)) + 1]],
         rng |-> RngAfter(obj._rng, obj.n_samples)]

\* self.attr = value
SetAttr(obj, attr, value) == (attr :> value) @@ obj

\* simulate() that keeps the time series and drops the state time course
simulateDroppingStates(obj, gs) ==
    LET o1 == SetAttr(SetAttr(obj, "state_time_course", gs.val), "_rng", gs.rng)
        sd == simulate_data(o1)
    IN  IF sd.err # "ok"
        THEN [err |-> sd.err, obj |-> SetAttr(obj, "_rng", sd.rng), log |-> None]
        ELSE [err |-> "ok",
              obj |-> SetAttr(SetAttr(obj, "time_series", sd.val), "_rng", sd.rng),
              log |-> [writes |-> sd.writes, mu |-> sd.mu, sigma |-> sd.sigma,
                       mus_sim |-> sd.mus_sim, mus_shape |-> sd.mus_shape]]

\* Simulation.simulate(), with gs what generate_states() returned:
\* [err, obj, log]
simulate(obj, gs) ==
    LET o1 == SetAttr(SetAttr(obj, "state_time_course", gs.val), "_rng", gs.rng)
        sd == simulate_data(o1)
    IN  IF sd.err # "ok"
        THEN [err |-> sd.err, obj |-> SetAttr(o1, "_rng", sd.rng), log |-> None]
        ELSE [err |-> "ok",
              obj |-> SetAttr(SetAttr(o1, "time_series", sd.val), "_rng", sd.rng),
              log |-> [writes |-> sd.writes, mu |-> sd.mu, sigma |-> sd.sigma,
                       mus_sim |-> sd.mus_sim, mus_shape |-> sd.mus_shape]]

\* the covariances argument of a caller: per state k a matrix of
\* shape (n_channels, n_channels), diagonal or with equal off-diagonal entries
GivenCovariances(kind, K, C) ==
    [k \in 1..K |-> [i \in 1..C |-> [j \in 1..C |->
        IF i = j THEN Num(k + 1) ELSE IF kind = "dense" THEN One ELSE Zero]]]

\* Simulation.__init__: [err, obj, log]; covariances is "None" or the kind
\* of the array passed
SimulationInit(n_samples, n_channels, n_states, sim_varying_means, covariances, observation_error, random_covariance_weights, sim, random_seed) ==
    LET o1 == [n_samples |-> n_samples, n_channels |-> n_channels,
               n_states |-> n_states, sim_varying_means |-> sim_varying_means,
               random_covariance_weights |-> random_covariance_weights,
               observation_error |-> observation_error,
               state_time_course |-> None]
        cc == IF covariances = "None" THEN create_covariances(o1)
              ELSE [err |-> "ok",
                    val |-> GivenCovariances(covariances, n_states, n_channels)]
        o2 == SetAttr(SetAttr(SetAttr(o1, "covariances", cc.val),
                              "time_series", None),
                      "_rng", default_rng(random_seed))
    IN  IF cc.err # "ok" THEN [err |-> cc.err]
        ELSE IF sim THEN simulate(o2, generate_states(o2))
        ELSE [err |-> "ok", obj |-> o2, log |-> None]

\* standardize() for which the mean of no data is no mean: it returns on
\* any object
standardizeOfNothing(obj) ==
    [err |-> "ok",
     obj |-> SetAttr(SetAttr(obj, "means", None), "standard_deviations", None)]

\* standardize() that divides the covariances by the standard deviations
\* of the rows only
standardizeRowsOnly(obj) ==
    LET ts    == obj.time_series
        C     == obj.n_channels
        means == [c \in 1..C |-> ColMean(ts, c)]
        stds  == [c \in 1..C |-> ColStd(ts, c)]
    IN  IF ts = None THEN [err |-> "AxisError"]
        ELSE [err |-> "ok",
              obj |-> SetAttr(SetAttr(SetAttr(SetAttr(obj,
                        "means", means),
                        "standard_deviations", stds),
                        "time_series",
                        [t \in 1..Len(ts) |-> [c \in 1..C |->
                            NDiv(NSub(ts[t][c], means[c]), stds[c])]]),
                        "covariances",
                        [k \in 1..obj.n_states |-> [i \in 1..C |-> [j \in 1..C |->
                            NDiv(obj.covariances[k][i][j], stds[i])]]])]

\* Simulation.standardize(): [err, obj]
standardize(obj) ==
    LET ts    == obj.time_series
        C     == obj.n_channels
        means == [c \in 1..C |-> ColMean(ts, c)]
        stds  == [c \in 1..C |-> ColStd(ts, c)]
    IN  \* np.mean(None, axis=0): axis 0 is out of bounds for a 0-d array
        IF ts = None THEN [err |-> "AxisError"]
        ELSE [err |-> "ok",
              obj |-> SetAttr(SetAttr(SetAttr(SetAttr(obj,
                        "means", means),
                        "standard_deviations", stds),
                        "time_series",
                        [t \in 1..Len(ts) |-> [c \in 1..C |->
                            NDiv(NSub(ts[t][c], means[c]), stds[c])]]),
                        "covariances",
                        [k \in 1..obj.n_states |-> [i \in 1..C |-> [j \in 1..C |->
                            NDiv(obj.covariances[k][i][j],
                                 NMul(stds[i], stds[j]))]]])]

\* ------------------------------------------------------------------ state

\* self:    the Simulation's __dict__ (NoObject while there is none)
\* phase:   "new" before the constructor ran, "live" once it returned,
\*          "failed" when it raised
\* lastOp:  the last operation called, result: "ok" or the exception it
\*          raised, retval: <<v>> when it returned v, <<>> otherwise
\* args:    the constructor's arguments that the instance does not keep
\* sdlog:   what the last completed simulate_data() did for each timestep
\* n_simulate:    the simulate() calls made after the constructor returned
\* n_standardize: the standardize() calls that returned normally: 0, 1, or
\*                2 for two and more
VARIABLES self, phase, args, lastOp, result, retval, sdlog, n_simulate,
          n_standardize

simVars == <<self, phase, args, lastOp, result, retval, sdlog, n_simulate,
             n_standardize>>

\* data:     the Data instance's __dict__ (NoObject while there is none)
\* dphase:   "new", "live" or "failed", as phase
\* dargs:    the arguments of the last call on the Data instance
\* dlastOp:  the last operation called on it, dresult: "ok", "warning" when
\*           it returned after logging a warning, or the exception raised
\* prepare_runs: the calls of vrad.data.manipulation.prepare
\* subject_kw:   the keywords Subject.__init__ accepts for the identifier
VARIABLES data, dphase, dargs, dlastOp, dresult, prepare_runs, subject_kw

dataVars == <<data, dphase, dargs, dlastOp, dresult, prepare_runs, subject_kw>>

\* config:  the observation model's Config (NoObject while there is none)
\* vlog:    the validate_* methods Config.__post_init__ has entered, in order
\* model:   the layers of the keras model built from config (NoObject while
\*          no graph is built)
\* olastOp: the last operation on config or model, oargs its arguments,
\*          oresult "ok" or the exception raised, oretval what it returned
VARIABLES config, vlog, model, olastOp, oargs, oresult, oretval

obsVars == <<config, vlog, model, olastOp, oargs, oresult, oretval>>

\* twin: a second Simulation, built with the arguments of the first
\* call: the last call of a function of the plotting and matching utilities
VARIABLES twin, call

restVars == <<obsVars, twin, call>>

vars == <<simVars, dataVars, restVars>>

NoObject == [exists |-> FALSE]

\* no observation model is involved
NoObs ==
    /\ config = NoObject
    /\ vlog = <<>>
    /\ model = NoObject
    /\ olastOp = "none"
    /\ oargs = NoObject
    /\ oresult = "ok"
    /\ oretval = <<>>

\* no observation model, second Simulation or utility call is involved
NoRest ==
    /\ NoObs
    /\ twin = NoObject
    /\ call = NoObject

\* no Data instance is involved
NoData ==
    /\ data = NoObject
    /\ dphase = "new"
    /\ dargs = NoObject
    /\ dlastOp = "none"
    /\ dresult = "ok"
    /\ prepare_runs = 0
    /\ subject_kw = {"_id"}

\* simulate() calls the model follows after the constructor
MaxSimulate == 1

InitSim ==
    /\ self = NoObject
    /\ phase = "new"
    /\ args = NoObject
    /\ lastOp = "none"
    /\ result = "ok"
    /\ retval = <<>>
    /\ sdlog = None
    /\ n_simulate = 0
    /\ n_standardize = 0
    /\ NoData
    /\ NoRest

\* sim = Simulation(...)
Construct ==
    /\ phase = "new"
    /\ \E n_samples \in 1..MaxSamples, n_channels \in 1..MaxChannels,
          n_states \in 1..MaxStates, sim_varying_means \in BOOLEAN,
          covariances \in {"None", "dense"},
          random_covariance_weights \in BOOLEAN, sim \in BOOLEAN,
          random_seed \in 0..MaxSeed :
        \E r \in {SimulationInit(n_samples, n_channels, n_states,
                     sim_varying_means, covariances, 1,
                     random_covariance_weights, sim, random_seed)} :
            /\ result' = r.err
            /\ phase' = IF r.err = "ok" THEN "live" ELSE "failed"
            /\ self' = IF r.err = "ok" THEN r.obj ELSE NoObject
            /\ sdlog' = IF r.err = "ok" THEN r.log ELSE None
            /\ args' = [covariances |-> covariances, simulate |-> sim,
                        random_seed |-> random_seed]
    /\ lastOp' = "__init__"
    /\ retval' = <<>>
    /\ UNCHANGED <<n_simulate, n_standardize>>
    /\ UNCHANGED dataVars
    /\ UNCHANGED restVars

\* sim.simulate()
Simulate ==
    /\ phase = "live"
    /\ n_simulate < MaxSimulate
    /\ \E r \in {simulate(self, generate_states(self))} :
           /\ result' = r.err
           /\ self' = r.obj
           /\ sdlog' = IF r.err = "ok" THEN r.log ELSE sdlog
    /\ lastOp' = "simulate"
    /\ retval' = <<>>
    /\ n_simulate' = n_simulate + 1
    /\ UNCHANGED <<phase, args, n_standardize>>
    /\ UNCHANGED dataVars
    /\ UNCHANGED restVars

\* sim.standardize()
Standardize ==
    /\ phase = "live"
    /\ \E r \in {standardize(self)} :
           /\ result' = r.err
           /\ self' = IF r.err = "ok" THEN r.obj ELSE self
           /\ n_standardize' = IF r.err = "ok" /\ n_standardize < 2
                               THEN n_standardize + 1 ELSE n_standardize
    /\ lastOp' = "standardize"
    /\ retval' = <<>>
    /\ UNCHANGED <<phase, args, sdlog, n_simulate>>
    /\ UNCHANGED dataVars
    /\ UNCHANGED restVars

\* sim.<attr>, for an attribute the constructor assigns, one of the
\* underlying array, one nothing has, and a special method's name
ReadAttr ==
    /\ phase = "live"
    /\ \E attr \in {"time_series", "shape", "means", "__deepcopy__"} :
        \E r \in {GetAttr(self, attr)} :
            /\ result' = r.err
            /\ retval' = IF r.err = "ok" THEN <<r.val>> ELSE <<>>
            /\ lastOp' = attr
    /\ UNCHANGED <<self, phase, args, sdlog, n_simulate, n_standardize>>
    /\ UNCHANGED dataVars
    /\ UNCHANGED restVars

NextSim ==
    \/ Construct
    \/ Simulate
    \/ Standardize
    \/ ReadAttr

SpecSim == InitSim /\ [][NextSim]_vars

\* ------------------------------------------- simulate_data on any input

\* samples and states of the time courses simulate_data is applied to
MixMaxSamples == 3
MixMaxStates == 3

\* every state time course of n_samples rows for n_states states
StateTimeCourses(n_samples, n_states) ==
    [1..n_samples -> MixtureRows(n_states)]

\* a Simulation built with simulate=False and the caller's covariances
InitMix ==
    /\ \E n_samples \in 1..MixMaxSamples, n_states \in 1..MixMaxStates,
          n_channels \in 1..2, sim_varying_means \in BOOLEAN :
          self = SimulationInit(n_samples, n_channels, n_states,
                     sim_varying_means, "dense", 1, FALSE, FALSE, 0).obj
    /\ phase = "live"
    /\ args = [covariances |-> "dense", simulate |-> FALSE, random_seed |-> 0]
    /\ lastOp = "__init__"
    /\ result = "ok"
    /\ retval = <<>>
    /\ sdlog = None
    /\ n_simulate = 0
    /\ n_standardize = 0
    /\ NoData
    /\ NoRest

\* sim.simulate(), for a subclass whose generate_states() returns stc without
\* drawing from the instance's generator
SimulateAny ==
    /\ phase = "live"
    /\ n_simulate = 0
    /\ \E stc \in StateTimeCourses(self.n_samples, self.n_states) :
        \E r \in {simulate(self, [val |-> stc, rng |-> self._rng])} :
           /\ result' = r.err
           /\ self' = r.obj
           /\ sdlog' = IF r.err = "ok" THEN r.log ELSE sdlog
    /\ lastOp' = "simulate"
    /\ retval' = <<>>
    /\ n_simulate' = n_simulate + 1
    /\ UNCHANGED <<phase, args, n_standardize>>
    /\ UNCHANGED dataVars
    /\ UNCHANGED restVars

NextMix == SimulateAny

SpecMix == InitMix /\ [][NextMix]_vars

\* ------------------------------------------------------ claims: Simulation

\* the Simulation was built with simulate=False and simulate() has not been
\* called since
Deferred == phase = "live" /\ ~args.simulate /\ n_simulate = 0

DataGenerated == phase = "live" /\ self.time_series # None

\* C1: reading time_series of a Simulation built with simulate=False, before
\* simulate() is called, raises NameError.
C1_DeferredTimeSeriesReadRaises ==
    (Deferred /\ lastOp = "time_series") => result = NameErrorNotCreated

\* C2: a standardize() call after one that returned normally raises and
\* leaves time_series and covariances as they were.
C2_SecondStandardizeFails ==
    [][(Standardize /\ n_standardize >= 1)
         => /\ result' # "ok"
            /\ self'.time_series = self.time_series
            /\ self'.covariances = self.covariances]_vars

\* C3: the lifecycle is CONSTRUCTED -> STATES_GENERATED -> DATA_GENERATED.
\* A constructor called with simulate=True returns with state_time_course
\* and time_series set; with simulate=False both stay unset until simulate()
\* is called; simulate() sets the state time course before it generates the
\* data, so time_series is never set while state_time_course is unset.
C3_Lifecycle ==
    phase = "live" =>
        /\ (lastOp = "__init__" /\ args.simulate)
              => (self.state_time_course # None /\ self.time_series # None)
        /\ Deferred => (self.state_time_course = None /\ self.time_series = None)
        /\ self.time_series # None => self.state_time_course # None
        /\ lastOp = "simulate" => self.state_time_course # None
        /\ (lastOp = "simulate" /\ result = "ok") => self.time_series # None

\* a deferred Simulation whose simulate() has returned
C3_Witness ==
    /\ phase = "live" /\ ~args.simulate
    /\ lastOp = "simulate" /\ result = "ok"
    /\ self.state_time_course # None /\ self.time_series # None

\* C4: once the data is generated, no operation other than standardize()
\* changes state_time_course, time_series or covariances.
C4_ImmutableAfterGeneration ==
    [][(DataGenerated /\ ~Standardize)
         => /\ self'.state_time_course = self.state_time_course
            /\ self'.time_series = self.time_series
            /\ self'.covariances = self.covariances]_vars

\* mean_j and covariance_j of state j, as simulate_data had them
ModeMean(j) == IF sdlog.mus_shape = <<2>> THEN sdlog.mus_sim ELSE sdlog.mus_sim[j]

\* C5: simulate_data writes every timestep exactly once, with the parameters
\* mean = sum_j stc[t,j] * mean_j and covariance = sum_j stc[t,j] * cov_j of
\* that timestep's own row.
C5_GroupingIsPerTimestep ==
    (phase = "live" /\ lastOp = "simulate" /\ result = "ok") =>
        \A t \in 1..self.n_samples :
            /\ sdlog.writes[t] = 1
            /\ sdlog.mu[t] =
                 [c \in 1..self.n_channels |->
                    NSum([j \in 1..self.n_states |->
                            NMul(self.state_time_course[t][j], ModeMean(j)[c])])]
            /\ sdlog.sigma[t] =
                 [i \in 1..self.n_channels |-> [k \in 1..self.n_channels |->
                    NSum([j \in 1..self.n_states |->
                            NMul(self.state_time_course[t][j],
                                 self.covariances[j][i][k])])]]

\* a simulated time course in which two timesteps share a row and a third
\* has another row that agrees with it in one state's weight
C5_Witness ==
    /\ phase = "live" /\ lastOp = "simulate" /\ result = "ok"
    /\ \E t, u, v \in 1..self.n_samples :
          /\ t < u
          /\ self.state_time_course[t] = self.state_time_course[u]
          /\ self.state_time_course[v] # self.state_time_course[t]
          /\ \E j \in 1..self.n_states :
                self.state_time_course[v][j] = self.state_time_course[t][j]

\* C6: a constructor called with covariances=None returns, and the instance
\* holds n_states matrices of shape (n_channels, n_channels).
C6_ConstructsCovariances ==
    (lastOp = "__init__" /\ args.covariances = "None") =>
        /\ result = "ok"
        /\ Len(self.covariances) = self.n_states
        /\ \A k \in 1..self.n_states :
              /\ Len(self.covariances[k]) = self.n_channels
              /\ \A i \in 1..self.n_channels :
                    Len(self.covariances[k][i]) = self.n_channels

\* C7: simulate_data uses zero means when sim_varying_means is False and an
\* (n_states, n_channels) array of means when it is True; the mixed mean of
\* every row has length n_channels, and simulate_data does not fail on it.
C7_ModeMeans ==
    /\ (phase = "live" /\ sdlog # None) =>
          /\ sdlog.mus_shape = <<self.n_states, self.n_channels>>
          /\ \A t \in 1..self.n_samples : Len(sdlog.mu[t]) = self.n_channels
          /\ ~self.sim_varying_means =>
                \A j \in 1..self.n_states : \A c \in 1..self.n_channels :
                    sdlog.mus_sim[j][c] = Zero
    /\ lastOp \in {"__init__", "simulate"} => result # ValueErrorMeanCov

\* -------------------------------------------------------------------- Data

\* subjects a list passed to Data holds at most; the identifiers remove()
\* and prepare() are called with are of 1..MaxSubjects
MaxSubjects == 3

\* The subjects argument of Data(...) and add(...): a file name, a list of
\* n file names or arrays, or an array of ndim dimensions and n entries
\* along its first axis.
SubjectArgs ==
    {[kind |-> "str", ndim |-> 0, n |-> 1]}
    \cup {[kind |-> "list", ndim |-> 0, n |-> k] : k \in 1..MaxSubjects}
    \cup {[kind |-> "ndarray", ndim |-> d, n |-> k] : d \in 1..4, k \in 1..2}

\* Data.check(subjects): [err, n], n the len() of what it returns
DataCheck(arg) ==
    IF arg.kind = "ndarray"
    THEN IF arg.ndim # 2 \/ arg.ndim # 3 THEN [err |-> "ValueError"]
         ELSE IF arg.ndim = 2 THEN [err |-> "ok", n |-> 1]
         ELSE [err |-> "ok", n |-> arg.n]
    ELSE [err |-> "ok", n |-> arg.n]

\* Subject(time_series, _id, sampling_frequency): what Data keeps track of is
\* the identifier, and how often the subject has been prepared
Subject(id) == [id |-> id, n_prepared |-> 0]

\* Data.__init__(subjects): [err, obj]
DataInit(arg) ==
    LET c == DataCheck(arg)
    IN  IF c.err # "ok" THEN [err |-> c.err]
        ELSE [err |-> "ok",
              obj |-> [n_subjects |-> c.n,
                       subjects   |-> [i \in 1..c.n |-> Subject(i)],
                       prepared   |-> FALSE]]

\* Data.add(new_subjects): [err, obj]; kw are the keywords Subject accepts
DataAdd(obj, arg, kw) ==
    LET c  == DataCheck(arg)
        o1 == [obj EXCEPT !.n_subjects = @ + c.n]
    IN  IF c.err # "ok" THEN [err |-> c.err, obj |-> obj]
        \* Subject(..., _ids=...)
        ELSE IF c.n > 0 /\ "_ids" \notin kw THEN [err |-> "TypeError", obj |-> o1]
        ELSE [err |-> "ok",
              obj |-> [o1 EXCEPT !.subjects =
                         @ \o [i \in 1..c.n |-> Subject(o1.n_subjects + (i - 1) + 1)]]]

\* the loop of Data.remove over ids, a sequence of positive integers:
\* del self.subjects[i - 1]
RECURSIVE DelLoop(_, _)
DelLoop(subjects, ids) ==
    IF ids = <<>> THEN [err |-> "ok", subjects |-> subjects]
    ELSE IF Head(ids) > Len(subjects)
         THEN [err |-> "IndexError", subjects |-> subjects]
    ELSE DelLoop([p \in 1..(Len(subjects) - 1) |->
                     IF p < Head(ids) THEN subjects[p] ELSE subjects[p + 1]],
                 Tail(ids))

\* Data.remove(ids): [err, obj]; ids is an int or a sequence
DataRemove(obj, arg) ==
    LET ids == IF arg.kind = "int" THEN <<arg.ids>> ELSE arg.ids
        r   == DelLoop(obj.subjects, ids)
    IN  [err |-> r.err, obj |-> [obj EXCEPT !.subjects = r.subjects]]

\* vrad.data.manipulation.prepare(subjects, ids, ...): the subjects that ids
\* address, as remove() addresses them, are preprocessed
PrepareSubjects(subjects, ids) ==
    [p \in 1..Len(subjects) |->
        IF p \in ids THEN [subjects[p] EXCEPT !.n_prepared = @ + 1]
        ELSE subjects[p]]

\* the ids prepare() works with: [err, ids]
PrepareIds(obj, arg) ==
    IF arg.kind = "int" THEN [err |-> "ok", ids |-> {arg.ids}]
    ELSE IF arg.kind = "str"
         THEN IF arg.ids = "all"
              THEN [err |-> "ok", ids |-> 1..obj.n_subjects]
              ELSE [err |-> "ValueError"]
    ELSE [err |-> "ok", ids |-> arg.ids]

\* prepare() that does not look at the prepared flag
DataPrepareUngated(obj, arg) ==
    LET i == PrepareIds(obj, arg)
    IN  IF i.err # "ok" THEN [err |-> i.err, obj |-> obj, runs |-> 0]
        ELSE [err |-> "ok",
              obj |-> [obj EXCEPT !.subjects = PrepareSubjects(@, i.ids),
                                  !.prepared = TRUE],
              runs |-> 1]

\* prepare() that looks at the prepared flag before it looks at ids
DataPrepareGateFirst(obj, arg) ==
    LET i == PrepareIds(obj, arg)
    IN  IF obj.prepared THEN [err |-> "warning", obj |-> obj, runs |-> 0]
        ELSE IF i.err # "ok" THEN [err |-> i.err, obj |-> obj, runs |-> 0]
        ELSE [err |-> "ok",
              obj |-> [obj EXCEPT !.subjects = PrepareSubjects(@, i.ids),
                                  !.prepared = TRUE],
              runs |-> 1]

\* Data.prepare(ids): [err, obj, runs], runs the calls of the preprocessing
DataPrepare(obj, arg) ==
    LET i == PrepareIds(obj, arg)
    IN  IF i.err # "ok" THEN [err |-> i.err, obj |-> obj, runs |-> 0]
        ELSE IF obj.prepared THEN [err |-> "warning", obj |-> obj, runs |-> 0]
        ELSE [err |-> "ok",
              obj |-> [obj EXCEPT !.subjects = PrepareSubjects(@, i.ids),
                                  !.prepared = TRUE],
              runs |-> 1]

\* no Simulation is involved; Subject takes its identifier as _id, and may or
\* may not take it as _ids as well
InitData ==
    /\ self = NoObject
    /\ phase = "new"
    /\ args = NoObject
    /\ lastOp = "none"
    /\ result = "ok"
    /\ retval = <<>>
    /\ sdlog = None
    /\ n_simulate = 0
    /\ n_standardize = 0
    /\ data = NoObject
    /\ dphase = "new"
    /\ dargs = NoObject
    /\ dlastOp = "none"
    /\ dresult = "ok"
    /\ prepare_runs = 0
    /\ subject_kw \in {{"_id"}, {"_id", "_ids"}}
    /\ NoRest

\* data = Data(subjects)
DataConstruct ==
    /\ dphase = "new"
    /\ \E arg \in SubjectArgs :
        \E r \in {DataInit(arg)} :
            /\ dresult' = r.err
            /\ dphase' = IF r.err = "ok" THEN "live" ELSE "failed"
            /\ data' = IF r.err = "ok" THEN r.obj ELSE NoObject
            /\ dargs' = arg
    /\ dlastOp' = "__init__"
    /\ UNCHANGED <<prepare_runs, subject_kw>>
    /\ UNCHANGED simVars
    /\ UNCHANGED restVars

\* data.add(new_subjects)
Add ==
    /\ dphase = "live"
    /\ \E arg \in SubjectArgs :
        /\ data.n_subjects + arg.n <= MaxSubjects
        /\ \E r \in {DataAdd(data, arg, subject_kw)} :
            /\ dresult' = r.err
            /\ data' = r.obj
            /\ dargs' = arg
    /\ dlastOp' = "add"
    /\ UNCHANGED <<dphase, prepare_runs, subject_kw>>
    /\ UNCHANGED simVars
    /\ UNCHANGED restVars

\* the sequences of distinct identifiers
IdLists ==
    {ids \in UNION {[1..n -> 1..MaxSubjects] : n \in 1..MaxSubjects} :
        \A p, q \in DOMAIN ids : p # q => ids[p] # ids[q]}

\* data.remove(ids)
Remove ==
    /\ dphase = "live"
    /\ \E arg \in {[kind |-> "int", ids |-> i] : i \in 1..MaxSubjects}
                  \cup {[kind |-> "list", ids |-> l] : l \in IdLists} :
        \E r \in {DataRemove(data, arg)} :
            /\ dresult' = r.err
            /\ data' = r.obj
            /\ dargs' = arg
    /\ dlastOp' = "remove"
    /\ UNCHANGED <<dphase, prepare_runs, subject_kw>>
    /\ UNCHANGED simVars
    /\ UNCHANGED restVars

\* data.prepare(ids), with ids that address subjects of the collection
Prepare ==
    /\ dphase = "live"
    /\ \E arg \in {[kind |-> "int", ids |-> i] : i \in 1..MaxSubjects}
                  \cup {[kind |-> "str", ids |-> x] : x \in {"all", "none"}}
                  \cup {[kind |-> "list", ids |-> l] : l \in SUBSET (1..MaxSubjects)} :
        /\ LET i == PrepareIds(data, arg)
           IN  i.err = "ok" => i.ids \subseteq 1..Len(data.subjects)
        /\ \E r \in {DataPrepare(data, arg)} :
            /\ dresult' = r.err
            /\ data' = r.obj
            /\ prepare_runs' = prepare_runs + r.runs
            /\ dargs' = arg
    /\ dlastOp' = "prepare"
    /\ UNCHANGED <<dphase, subject_kw>>
    /\ UNCHANGED simVars
    /\ UNCHANGED restVars

NextData ==
    \/ DataConstruct
    \/ Add
    \/ Remove
    \/ Prepare

SpecData == InitData /\ [][NextData]_vars

\* ------------------------------------------------------------ claims: Data

\* C8: Data accepts a 2-D array as one subject and a 3-D array as one subject
\* per entry of its first axis; an array of another rank raises ValueError.
C8_ArrayRanks ==
    (dlastOp = "__init__" /\ dargs.kind = "ndarray") =>
        CASE dargs.ndim = 2 -> dresult = "ok" /\ Len(data.subjects) = 1
          [] dargs.ndim = 3 -> dresult = "ok" /\ Len(data.subjects) = dargs.n
          [] OTHER -> dresult = "ValueError"

\* the identifiers a remove() call names
RemovedIds(arg) ==
    IF arg.kind = "int" THEN {arg.ids} ELSE {arg.ids[p] : p \in DOMAIN arg.ids}

\* C9: remove(ids) removes the subjects whose identifiers are in ids and no
\* other; the remaining subjects keep their order.
C9_RemoveByIdentifier ==
    [][(dlastOp' = "remove"
        /\ RemovedIds(dargs') \subseteq {data.subjects[p].id : p \in DOMAIN data.subjects}) =>
         data'.subjects =
            SelectSeq(data.subjects, LAMBDA x : x.id \notin RemovedIds(dargs'))]_vars

\* C10: prepared is False after construction, True after the first prepare()
\* and never False again; a prepare() of prepared data changes no subject and
\* logs a warning; the preprocessing runs at most once.
C10_PreparedGate ==
    [][/\ (dlastOp' = "__init__" /\ dresult' = "ok") => ~data'.prepared
       /\ dphase = "live" =>
            /\ data.prepared => data'.prepared
            /\ (dlastOp' = "prepare" /\ dresult' = "ok")
                  => (~data.prepared /\ data'.prepared
                      /\ prepare_runs' = prepare_runs + 1)
            /\ (dlastOp' = "prepare" /\ data.prepared
                  /\ PrepareIds(data, dargs').err = "ok")
                  => (dresult' = "warning" /\ data' = data
                      /\ prepare_runs' = prepare_runs)
            /\ prepare_runs' <= 1
            /\ data'.prepared <=> prepare_runs' = 1]_vars

\* prepared data, with a subject that was preprocessed, after another
\* prepare() that named it
C10_Witness ==
    /\ dphase = "live" /\ data.prepared
    /\ dlastOp = "prepare" /\ dresult = "warning"
    /\ dargs.kind = "int" /\ dargs.ids <= Len(data.subjects)
    /\ data.subjects[dargs.ids].n_prepared = 1

\* ------------------------------------------------- M-DyNeMo observation model

\* modes and channels of an observation model
MaxModes == 2
ObsMaxChannels == 2
\* sequence_length of a Config
MaxSeqLen == 1

ValueErrorLearn == "ValueError: learn_means, learn_stds and learn_fcs must be passed."

\* a check that only fails when all three are missing
validateRequiresAllMissing(cfg) ==
    IF cfg.learn_means = "None" /\ cfg.learn_stds = "None" /\ cfg.learn_fcs = "None"
    THEN ValueErrorLearn ELSE "ok"

\* Config.validate_observation_model_parameters: the exception raised, or "ok"
validate_observation_model_parameters(cfg) ==
    IF cfg.learn_means = "None" \/ cfg.learn_stds = "None" \/ cfg.learn_fcs = "None"
    THEN ValueErrorLearn ELSE "ok"

\* BaseModelConfig.validate_dimension_parameters: n_modes, n_channels and
\* sequence_length must be given as positive numbers
validate_dimension_parameters(cfg) ==
    IF cfg.n_modes < 1 \/ cfg.n_channels < 1 \/ cfg.sequence_length < 1
    THEN "ValueError: dimension parameters" ELSE "ok"

\* BaseModelConfig.validate_training_parameters: batch_size must be positive
validate_training_parameters(cfg) ==
    IF cfg.batch_size < 1 THEN "ValueError: training parameters" ELSE "ok"

\* Config(**fields), the dataclass __init__ followed by __post_init__:
\* [err, vlog], vlog the validations entered
ConfigInit(cfg) ==
    LET e1 == validate_observation_model_parameters(cfg)
        e2 == validate_dimension_parameters(cfg)
        e3 == validate_training_parameters(cfg)
        l1 == <<"validate_observation_model_parameters">>
        l2 == Append(l1, "validate_dimension_parameters")
        l3 == Append(l2, "validate_training_parameters")
    IN  IF e1 # "ok" THEN [err |-> e1, vlog |-> l1]
        ELSE IF e2 # "ok" THEN [err |-> e2, vlog |-> l2]
        ELSE [err |-> e3, vlog |-> l3]

\* the keyword arguments a Config is made with
ConfigArgs ==
    [learn_means : {"None", "True", "False"},
     learn_stds  : {"None", "True", "False"},
     learn_fcs   : {"None", "True", "False"},
     n_modes     : 0..MaxModes,
     n_channels  : 1..ObsMaxChannels,
     sequence_length : 1..MaxSeqLen,
     batch_size  : 0..1]

\* config = Config(...)
ConfigConstruct ==
    /\ olastOp = "none"
    /\ \E cfg \in ConfigArgs :
        \E r \in {ConfigInit(cfg)} :
            /\ oresult' = r.err
            /\ vlog' = r.vlog
            /\ config' = IF r.err = "ok" THEN cfg ELSE NoObject
            /\ oargs' = cfg
    /\ olastOp' = "Config"
    /\ UNCHANGED <<model, oretval>>
    /\ UNCHANGED <<simVars, dataVars, twin, call>>

\* -------------------------------------------------- parameters of the modes
\* Parameters are fixed-point numbers, held as integers; a correlation of 1
\* is CorrOne.

\* np.float32 keeps the integers up to MantissaLimit exactly and rounds a
\* larger one to the nearest number with that many significant bits, ties to
\* even
MantissaLimit == 8

\* x / 2 rounded to the nearest integer, ties to even
HalfEven(x) ==
    IF x % 2 = 0 THEN x \div 2
    ELSE LET lo == (x - 1) \div 2 IN IF lo % 2 = 0 THEN lo ELSE lo + 1

\* x.astype(np.float32) of a number
RECURSIVE Float32(_)
Float32(x) == IF Abs(x) <= MantissaLimit THEN x ELSE 2 * Float32(HalfEven(x))

\* a.astype(np.float32) of a (n_modes, n) array, and of a
\* (n_modes, n, n) array
Float32Rows(a) == [k \in DOMAIN a |-> [c \in DOMAIN a[k] |-> Float32(a[k][c])]]
Float32Matrices(a) == [k \in DOMAIN a |-> Float32Rows(a[k])]

CorrOne == 4

\* stds_layer.bijector: forward maps a real to a positive number, inverse
\* is its exact inverse
DiagonalForward(y) == y + 1
DiagonalInverse(x) == x - 1

\* the place of entry (i, j), i > j, in the flattened lower triangle
PairIndex(i, j) == ((i - 1) * (i - 2)) \div 2 + j

\* fcs_layer.bijector: inverse flattens a correlation matrix to the entries
\* below its diagonal, forward builds the symmetric matrix with unit
\* diagonal from them
CorrelationInverse(R) ==
    LET C == Len(R)
    IN  [n \in 1..((C * (C - 1)) \div 2) |->
            LET ij == CHOOSE q \in (1..C) \X (1..C) :
                          q[1] > q[2] /\ PairIndex(q[1], q[2]) = n
            IN  R[ij[1]][ij[2]]]

CorrelationForward(v, C) ==
    [i \in 1..C |-> [j \in 1..C |->
        IF i = j THEN CorrOne
        ELSE IF i > j THEN v[PairIndex(i, j)] ELSE v[PairIndex(j, i)]]]

\* np.diagonal(stds, axis1=1, axis2=2), and the rows that are not it
FirstRows(stds) == [k \in DOMAIN stds |-> stds[k][1]]
Diagonal(stds) == [k \in DOMAIN stds |-> [c \in DOMAIN stds[k] |-> stds[k][c][c]]]

\* the diagonal matrices of a (n_modes, n_channels) array
DiagonalMatrices(d) ==
    [k \in DOMAIN d |-> [i \in DOMAIN d[k] |-> [j \in DOMAIN d[k] |->
        IF i = j THEN d[k][i] ELSE 0]]]

\* _model_structure(config): the three layers that hold parameters, with
\* means of zero, stds of one and identity correlations to start from
model_structure(cfg) ==
    LET K  == cfg.n_modes
        C  == cfg.n_channels
        m0 == [k \in 1..K |-> [c \in 1..C |-> 0]]
        s0 == [k \in 1..K |-> [c \in 1..C |-> CorrOne]]
        d0 == [k \in 1..K |-> [c \in 1..C |-> DiagonalInverse(s0[k][c])]]
        f0 == [k \in 1..K |-> CorrelationForward([n \in 1..((C * (C - 1)) \div 2) |-> 0], C)]
        c0 == [k \in 1..K |-> CorrelationInverse(f0[k])]
    IN  [means |-> [vectors |-> m0, initial_value |-> m0,
                    vectors_initializer |-> m0],
         stds  |-> [diagonals |-> d0, initial_value |-> s0,
                    initial_diagonals |-> d0, diagonals_initializer |-> d0],
         fcs   |-> [flattened_cholesky_factors |-> c0, initial_value |-> f0,
                    initial_flattened_cholesky_factors |-> c0,
                    flattened_cholesky_factors_initializer |-> c0]]

\* get_means_stds_fcs(model): <<means, stds, fcs>>
get_means_stds_fcs(m) ==
    <<m.means.vectors,
      DiagonalMatrices([k \in DOMAIN m.stds.diagonals |->
          [c \in DOMAIN m.stds.diagonals[k] |->
              DiagonalForward(m.stds.diagonals[k][c])]]),
      [k \in DOMAIN m.fcs.flattened_cholesky_factors |->
          CorrelationForward(m.fcs.flattened_cholesky_factors[k],
                             Len(m.means.vectors[k]))]>>

\* set_means_stds_fcs without the bijectors' inverse
setAssigningConstrained(m, means, stds, fcs, update_initializer) ==
    LET sv == Float32Rows(IF stds.ndim = 3 THEN Diagonal(stds.val) ELSE stds.val)
        fl == [k \in DOMAIN fcs |-> CorrelationInverse(Float32Matrices(fcs)[k])]
    IN  [m EXCEPT !.means.vectors = Float32Rows(means),
                  !.stds.diagonals = sv,
                  !.fcs.flattened_cholesky_factors = fl]

\* set_means_stds_fcs that leaves the initializers' values alone
setKeepingInitializers(m, means, stds, fcs, update_initializer) ==
    LET mv == Float32Rows(means)
        sv == Float32Rows(IF stds.ndim = 3 THEN Diagonal(stds.val) ELSE stds.val)
        fv == Float32Matrices(fcs)
        diagonals == [k \in DOMAIN sv |-> [c \in DOMAIN sv[k] |-> DiagonalInverse(sv[k][c])]]
        flat == [k \in DOMAIN fv |-> CorrelationInverse(fv[k])]
        m1 == [m EXCEPT !.means.vectors = mv,
                        !.stds.diagonals = diagonals,
                        !.fcs.flattened_cholesky_factors = flat]
    IN  IF update_initializer
        THEN [m1 EXCEPT !.means.initial_value = mv,
                        !.stds.initial_value = sv,
                        !.fcs.initial_value = fv,
                        !.stds.initial_diagonals = diagonals,
                        !.fcs.initial_flattened_cholesky_factors = flat]
        ELSE m1

\* set_means_stds_fcs(model, means, stds, fcs, update_initializer): the
\* model after it; stds is [ndim, val]
set_means_stds_fcs(m, means, stds, fcs, update_initializer) ==
    LET mv == Float32Rows(means)
        sv == Float32Rows(IF stds.ndim = 3 THEN Diagonal(stds.val) ELSE stds.val)
        fv == Float32Matrices(fcs)
        diagonals == [k \in DOMAIN sv |-> [c \in DOMAIN sv[k] |-> DiagonalInverse(sv[k][c])]]
        flat == [k \in DOMAIN fv |-> CorrelationInverse(fv[k])]
        m1 == [m EXCEPT !.means.vectors = mv,
                        !.stds.diagonals = diagonals,
                        !.fcs.flattened_cholesky_factors = flat]
    IN  IF update_initializer
        THEN [m1 EXCEPT !.means.initial_value = mv,
                        !.stds.initial_value = sv,
                        !.fcs.initial_value = fv,
                        !.stds.initial_diagonals = diagonals,
                        !.fcs.initial_flattened_cholesky_factors = flat,
                        !.means.vectors_initializer = mv,
                        !.stds.diagonals_initializer = diagonals,
                        !.fcs.flattened_cholesky_factors_initializer = flat]
        ELSE m1

\* ------------------------------------------------------------- claims: Config

\* C11: a Config with learn_means, learn_stds or learn_fcs left as None
\* raises ValueError before the dimension and training parameters are
\* validated and before a model graph is built; with all three given this
\* check raises nothing.
C11_MissingLearnFlags ==
    olastOp = "Config" =>
        IF "None" \in {oargs.learn_means, oargs.learn_stds, oargs.learn_fcs}
        THEN /\ oresult = ValueErrorLearn
             /\ vlog = <<"validate_observation_model_parameters">>
             /\ config = NoObject
             /\ model = NoObject
        ELSE /\ oresult # ValueErrorLearn
             /\ Len(vlog) >= 2

\* one flag is missing and the dimension and training parameters are invalid
\* as well
C11_Witness ==
    /\ olastOp = "Config"
    /\ oargs.learn_means = "True" /\ oargs.learn_stds = "False"
    /\ oargs.learn_fcs = "None"
    /\ oargs.n_modes = 0 /\ oargs.batch_size = 0
    /\ oresult = ValueErrorLearn

\* ------------------------------------------------ observation model: actions

\* the parameter sets a caller passes are numbered 0..MaxPattern
MaxPattern == 5

\* means of shape (n_modes, n_channels)
PatternMeans(p, K, C) ==
    [k \in 1..K |-> [c \in 1..C |-> (p + 1) * (2 * k + c) - 6]]

\* positive stds of shape (n_modes, n_channels)
PatternStds(p, K, C) ==
    [k \in 1..K |-> [c \in 1..C |-> 1 + (((p + 1) * (k + c)) % 12)]]

\* the same stds as matrices of shape (n_modes, n_channels, n_channels),
\* with entries off the diagonal
PatternStdMatrices(p, K, C) ==
    [k \in 1..K |-> [i \in 1..C |-> [j \in 1..C |->
        IF i = j THEN PatternStds(p, K, C)[k][i] ELSE p + i + 2 * j]]]

\* correlation matrices of shape (n_modes, n_channels, n_channels)
PatternFcs(p, K, C) ==
    [k \in 1..K |-> [i \in 1..C |-> [j \in 1..C |->
        IF i = j THEN CorrOne ELSE ((p + k + i + j) % 7) - 3]]]

\* the arguments of a set_means_stds_fcs call: parameter set p, stds with
\* nd dimensions
SetArgs(p, nd, u, K, C) ==
    [means |-> PatternMeans(p, K, C),
     stds  |-> IF nd = 3 THEN [ndim |-> 3, val |-> PatternStdMatrices(p, K, C)]
               ELSE [ndim |-> 2, val |-> PatternStds(p, K, C)],
     fcs   |-> PatternFcs(p, K, C),
     update_initializer |-> u]

InitObs ==
    /\ self = NoObject
    /\ phase = "new"
    /\ args = NoObject
    /\ lastOp = "none"
    /\ result = "ok"
    /\ retval = <<>>
    /\ sdlog = None
    /\ n_simulate = 0
    /\ n_standardize = 0
    /\ NoData
    /\ NoRest

\* model = Model(config): build_model()
BuildModel ==
    /\ config # NoObject
    /\ model = NoObject
    /\ model' = model_structure(config)
    /\ olastOp' = "build_model"
    /\ oresult' = "ok"
    /\ UNCHANGED <<config, vlog, oargs, oretval>>
    /\ UNCHANGED <<simVars, dataVars, twin, call>>

\* model.set_means_stds_fcs(means, stds, fcs, update_initializer)
SetMeansStdsFcs ==
    /\ model # NoObject
    /\ \E p \in 0..MaxPattern, nd \in {2, 3}, u \in BOOLEAN :
       LET a == SetArgs(p, nd, u, config.n_modes, config.n_channels) IN
        /\ model' = set_means_stds_fcs(model, a.means, a.stds, a.fcs,
                                       a.update_initializer)
        /\ oargs' = a
    /\ olastOp' = "set_means_stds_fcs"
    /\ oresult' = "ok"
    /\ oretval' = <<>>
    /\ UNCHANGED <<config, vlog>>
    /\ UNCHANGED <<simVars, dataVars, twin, call>>

\* model.get_means_stds_fcs(); oargs stays that of the last call with
\* arguments
GetMeansStdsFcs ==
    /\ model # NoObject
    /\ oretval' = get_means_stds_fcs(model)
    /\ olastOp' = "get_means_stds_fcs"
    /\ oresult' = "ok"
    /\ UNCHANGED <<config, vlog, model, oargs>>
    /\ UNCHANGED <<simVars, dataVars, twin, call>>

NextObs ==
    \/ ConfigConstruct
    \/ BuildModel
    \/ SetMeansStdsFcs
    \/ GetMeansStdsFcs

SpecObs == InitObs /\ [][NextObs]_vars

\* -------------------------------------------------- claims: parameter store

\* a get_means_stds_fcs() has returned and the last call with arguments was a
\* set_means_stds_fcs(...)
GetAfterSet == olastOp = "get_means_stds_fcs" /\ "means" \in DOMAIN oargs

\* the stds a set_means_stds_fcs call was given, one vector per mode
StdsGiven ==
    IF oargs.stds.ndim = 3
    THEN [k \in DOMAIN oargs.stds.val |->
            [c \in DOMAIN oargs.stds.val[k] |-> oargs.stds.val[k][c][c]]]
    ELSE oargs.stds.val

Initials(m) ==
    <<m.means.initial_value, m.stds.initial_value, m.fcs.initial_value,
      m.stds.initial_diagonals, m.fcs.initial_flattened_cholesky_factors,
      m.means.vectors_initializer, m.stds.diagonals_initializer,
      m.fcs.flattened_cholesky_factors_initializer>>

\* the stored initial values that parameters a give
InitialsOf(a) ==
    LET mv == Float32Rows(a.means)
        sv == Float32Rows(IF a.stds.ndim = 3
                          THEN [k \in DOMAIN a.stds.val |->
                                  [c \in DOMAIN a.stds.val[k] |-> a.stds.val[k][c][c]]]
                          ELSE a.stds.val)
        fv == Float32Matrices(a.fcs)
        dg == [k \in DOMAIN sv |-> [c \in DOMAIN sv[k] |-> sv[k][c] - 1]]
        fl == [k \in DOMAIN fv |-> CorrelationInverse(fv[k])]
    IN  <<mv, sv, fv, dg, fl, mv, dg, fl>>

\* C13: set_means_stds_fcs always overwrites the three trainable tensors;
\* with update_initializer it overwrites every stored initial value with the
\* new parameters, without it it leaves every stored initial value unchanged.
C13_SetOverwrites ==
    [][olastOp' = "set_means_stds_fcs" =>
        LET new == InitialsOf(oargs')
        IN  /\ model'.means.vectors = new[1]
            /\ model'.stds.diagonals = new[4]
            /\ model'.fcs.flattened_cholesky_factors = new[5]
            /\ IF oargs'.update_initializer
               THEN Initials(model') = new
               ELSE Initials(model') = Initials(model)]_vars

\* after a set without update_initializer no stored initial value is that
\* of the new parameters, and all are those of an earlier set
C13_Witness ==
    /\ olastOp = "set_means_stds_fcs"
    /\ ~oargs.update_initializer
    /\ \A n \in 1..8 :
        Initials(model)[n] # InitialsOf(oargs)[n]
    /\ Initials(model) # Initials(model_structure(config))
    /\ model.means.vectors = Float32Rows(oargs.means)

\* C14: set_means_stds_fcs with stds as full matrices has the effect on the
\* model of the call with the diagonals of those matrices as vectors.
C14_OnlyDiagonalKept ==
    [][(olastOp' = "set_means_stds_fcs" /\ oargs'.stds.ndim = 3) =>
        model' = set_means_stds_fcs(model, oargs'.means,
                    [ndim |-> 2,
                     val |-> [k \in DOMAIN oargs'.stds.val |->
                                [c \in DOMAIN oargs'.stds.val[k] |->
                                    oargs'.stds.val[k][c][c]]]],
                    oargs'.fcs, oargs'.update_initializer)]_vars

\* a set with full matrices whose first rows are not their diagonals
C14_Witness ==
    /\ olastOp = "set_means_stds_fcs"
    /\ oargs.stds.ndim = 3
    /\ Len(oargs.stds.val) = 2
    /\ \A k \in 1..2 : /\ Len(oargs.stds.val[k]) = 2
                       /\ oargs.stds.val[k][1][2] # 0
                       /\ oargs.stds.val[k][1][2] # oargs.stds.val[k][2][2]

\* ------------------------------------------------ observation model: graph

\* the sum of a sequence of integers
RECURSIVE SumSeq(_)
SumSeq(q) == IF q = <<>> THEN 0 ELSE Head(q) + SumSeq(Tail(q))

\* MixVectorsLayer([coefficients, vectors]): (T, K), (K, C) -> (T, C)
MixVectors(coef, vectors) ==
    [t \in DOMAIN coef |-> [c \in DOMAIN vectors[1] |->
        SumSeq([j \in DOMAIN vectors |-> coef[t][j] * vectors[j][c]])]]

\* MixMatricesLayer([coefficients, matrices]): (T, K), (K, C, C) -> (T, C, C)
MixMatrices(coef, matrices) ==
    [t \in DOMAIN coef |-> [a \in DOMAIN matrices[1] |-> [b \in DOMAIN matrices[1] |->
        SumSeq([j \in DOMAIN matrices |-> coef[t][j] * matrices[j][a][b]])]]]

\* the product of two (C, C) matrices
MatMul(A, B) ==
    [a \in DOMAIN A |-> [b \in DOMAIN A |->
        SumSeq([q \in DOMAIN A |-> A[a][q] * B[q][b]])]]

\* MatMulLayer([A, B, C]): the product A B C, for every timestep
MatMulLayer(A, B, C) ==
    [t \in DOMAIN A |-> MatMul(MatMul(A[t], B[t]), C[t])]

\* the data flow with the correlations mixed by alpha as well
model_callAlphaOnly(m, alpha, gamma) ==
    LET p  == get_means_stds_fcs(m)
        G  == MixMatrices(alpha, p[2])
        F  == MixMatrices(alpha, p[3])
    IN  [m |-> MixVectors(alpha, p[1]), G |-> G, F |-> F,
         C |-> MatMulLayer(G, F, G)]

\* the data flow of _model_structure for inputs alpha and gamma: what the
\* mixing layers give, and m and C as the loss layer gets them
model_call(m, alpha, gamma) ==
    LET p  == get_means_stds_fcs(m)
        G  == MixMatrices(alpha, p[2])
        F  == MixMatrices(gamma, p[3])
    IN  [m |-> MixVectors(alpha, p[1]), G |-> G, F |-> F,
         C |-> MatMulLayer(G, F, G)]

\* a row of mixing coefficients for K modes, in halves: one mode, or two
\* modes in equal parts
CoefficientRows(K) ==
    {[j \in 1..K |-> IF j = k THEN 2 ELSE 0] : k \in 1..K}
    \cup {[j \in 1..K |-> IF j = q[1] \/ j = q[2] THEN 1 ELSE 0] :
            q \in {r \in (1..K) \X (1..K) : r[1] < r[2]}}

\* a built model whose parameters have been set
InitGraph ==
    /\ self = NoObject
    /\ phase = "new"
    /\ args = NoObject
    /\ lastOp = "none"
    /\ result = "ok"
    /\ retval = <<>>
    /\ sdlog = None
    /\ n_simulate = 0
    /\ n_standardize = 0
    /\ NoData
    /\ twin = NoObject
    /\ call = NoObject
    /\ \E cfg \in ConfigArgs, p \in 0..MaxPattern :
        /\ cfg.learn_means = "True" /\ cfg.learn_stds = "True"
        /\ cfg.learn_fcs = "True"
        /\ ConfigInit(cfg).err = "ok"
        /\ config = cfg
        /\ vlog = ConfigInit(cfg).vlog
        /\ LET a == SetArgs(p, 2, TRUE, cfg.n_modes, cfg.n_channels)
           IN  model = set_means_stds_fcs(model_structure(cfg), a.means,
                                          a.stds, a.fcs, TRUE)
    /\ olastOp = "set_means_stds_fcs"
    /\ oargs = NoObject
    /\ oresult = "ok"
    /\ oretval = <<>>

\* model([data, alpha, gamma])
ModelCall ==
    /\ olastOp = "set_means_stds_fcs"
    /\ \E alpha \in [1..config.sequence_length -> CoefficientRows(config.n_modes)],
          gamma \in [1..config.sequence_length -> CoefficientRows(config.n_modes)] :
        /\ oargs' = [alpha |-> alpha, gamma |-> gamma]
        /\ oretval' = model_call(model, alpha, gamma)
    /\ olastOp' = "call"
    /\ oresult' = "ok"
    /\ UNCHANGED <<config, vlog, model>>
    /\ UNCHANGED <<simVars, dataVars, twin, call>>

NextGraph == ModelCall

SpecGraph == InitGraph /\ [][NextGraph]_vars

\* --------------------------------------------------------- claims: graph

\* C15: the mixed mean and the mixed standard-deviation matrix G come from
\* alpha only, the mixed correlation matrix F from gamma only, and the
\* covariance given to the loss is G[t] F[t] G[t]^T at every timestep.
C15_CongruenceOfStreams ==
    olastOp = "call" =>
        LET K   == config.n_modes
            Ch  == config.n_channels
            mu  == model.means.vectors
            sd  == [j \in 1..K |-> [c \in 1..Ch |-> model.stds.diagonals[j][c] + 1]]
            fc  == [j \in 1..K |->
                      CorrelationForward(model.fcs.flattened_cholesky_factors[j], Ch)]
            al  == oargs.alpha
            ga  == oargs.gamma
            out == oretval
        IN  \A t \in 1..config.sequence_length :
              /\ \A c \in 1..Ch :
                    out.m[t][c] = SumSeq([j \in 1..K |-> al[t][j] * mu[j][c]])
              /\ \A a, b \in 1..Ch :
                    /\ out.G[t][a][b] =
                         IF a = b THEN SumSeq([j \in 1..K |-> al[t][j] * sd[j][a]])
                         ELSE 0
                    /\ out.F[t][a][b] =
                         SumSeq([j \in 1..K |-> ga[t][j] * fc[j][a][b]])
                    /\ out.C[t][a][b] =
                         SumSeq([x \in 1..Ch |->
                            SumSeq([y \in 1..Ch |->
                               out.G[t][a][x] * out.F[t][x][y] * out.G[t][b][y]])])

\* two modes and two channels, alpha and gamma differ, and the correlation
\* mixed by gamma is not the one alpha would have mixed
C15_Witness ==
    /\ olastOp = "call"
    /\ config.n_modes = 2 /\ config.n_channels = 2
    /\ oargs.alpha[1] = <<2, 0>> /\ oargs.gamma[1] = <<1, 1>>
    /\ oretval.F # MixMatrices(oargs.alpha, get_means_stds_fcs(model)[3])
    /\ oretval.C[1][1][2] # 0

\* -------------------------------------------------------- two Simulations

\* what the operating system's entropy pool may give a generator made
\* without a seed: 0..MaxEntropy
MaxEntropy == 1

\* a generator that takes the entropy whatever seed it is given
SeedIgnored(random_seed, entropy) == entropy

\* the seed np.random.default_rng works with when it is given random_seed,
\* an integer: entropy is drawn only for a random_seed of None
SeedOf(random_seed, entropy) == random_seed

InitTwin ==
    /\ InitSim

\* sim1 = Simulation(...), and then sim2 = Simulation(...) with the
\* arguments sim1 was made with
TwinConstruct ==
    /\ phase \in {"new", "live"}
    /\ phase = "live" => (~twin.exists /\ n_simulate = 0)
    /\ \E n_samples \in 1..MaxSamples, n_channels \in 1..MaxChannels,
          n_states \in 1..MaxStates, sim_varying_means \in BOOLEAN,
          covariances \in {"None", "dense"},
          random_covariance_weights \in BOOLEAN, sim \in BOOLEAN,
          random_seed \in 0..MaxSeed, entropy \in 0..MaxEntropy :
        /\ phase = "live" =>
            /\ n_samples = self.n_samples
            /\ n_channels = self.n_channels
            /\ n_states = self.n_states
            /\ sim_varying_means = self.sim_varying_means
            /\ covariances = args.covariances
            /\ random_covariance_weights = self.random_covariance_weights
            /\ sim = args.simulate
            /\ random_seed = args.random_seed
        /\ \E r \in {SimulationInit(n_samples, n_channels, n_states,
                        sim_varying_means, covariances, 1,
                        random_covariance_weights, sim,
                        SeedOf(random_seed, entropy))} :
            IF phase = "new"
            THEN /\ result' = r.err
                 /\ phase' = IF r.err = "ok" THEN "live" ELSE "failed"
                 /\ self' = IF r.err = "ok" THEN r.obj ELSE NoObject
                 /\ sdlog' = IF r.err = "ok" THEN r.log ELSE None
                 /\ args' = [covariances |-> covariances, simulate |-> sim,
                             random_seed |-> random_seed]
                 /\ lastOp' = "__init__"
                 /\ retval' = <<>>
                 /\ UNCHANGED <<n_simulate, n_standardize, twin>>
            ELSE /\ r.err = "ok"
                 /\ twin' = [exists |-> TRUE, obj |-> r.obj, n_simulate |-> 0]
                 /\ UNCHANGED simVars
    /\ UNCHANGED dataVars
    /\ UNCHANGED <<obsVars, call>>

\* sim1.simulate() or sim2.simulate()
TwinSimulate ==
    /\ phase = "live"
    /\ twin.exists
    /\ \E first \in BOOLEAN :
        /\ IF first THEN n_simulate < MaxSimulate
           ELSE twin.n_simulate < MaxSimulate
        /\ LET o == IF first THEN self ELSE twin.obj IN
           \E r \in {simulate(o, generate_states(o))} :
            IF first
            THEN /\ result' = r.err
                 /\ self' = r.obj
                 /\ sdlog' = IF r.err = "ok" THEN r.log ELSE sdlog
                 /\ lastOp' = "simulate"
                 /\ retval' = <<>>
                 /\ n_simulate' = n_simulate + 1
                 /\ UNCHANGED <<phase, args, n_standardize, twin>>
            ELSE /\ twin' = [twin EXCEPT !.obj = r.obj, !.n_simulate = @ + 1]
                 /\ UNCHANGED simVars
    /\ UNCHANGED dataVars
    /\ UNCHANGED <<obsVars, call>>

NextTwin ==
    \/ TwinConstruct
    \/ TwinSimulate

SpecTwin == InitTwin /\ [][NextTwin]_vars

\* ------------------------------------------------- claims: two Simulations

CovMaxChannels == 3
CovMaxStates == 3
CovMaxSeed == 3

\* a Simulation built with simulate=False and the caller's covariances: the
\* constructor has returned, so the instance has its generator
InitCov ==
    /\ \E n_channels \in 1..CovMaxChannels, n_states \in 1..CovMaxStates,
          random_covariance_weights \in BOOLEAN, random_seed \in 0..CovMaxSeed :
        /\ self = SimulationInit(1, n_channels, n_states, FALSE, "dense", 1,
                      random_covariance_weights, FALSE, random_seed).obj
        /\ args = [covariances |-> "dense", simulate |-> FALSE,
                   random_seed |-> random_seed]
    /\ phase = "live"
    /\ lastOp = "__init__"
    /\ result = "ok"
    /\ retval = <<>>
    /\ sdlog = None
    /\ n_simulate = 0
    /\ n_standardize = 0
    /\ NoData
    /\ NoRest

\* sim.create_covariances(): the matrices are returned, not assigned; the
\* generator has moved on when the weights were drawn from it
CreateCovariances ==
    /\ phase = "live"
    /\ \E r \in {create_covariances(self)} :
        /\ result' = r.err
        /\ retval' = IF r.err = "ok" THEN r.val ELSE <<>>
        /\ self' = IF r.err = "ok" /\ self.random_covariance_weights
                   THEN SetAttr(self, "_rng", r.rng) ELSE self
    /\ lastOp' = "create_covariances"
    /\ UNCHANGED <<phase, args, sdlog, n_simulate, n_standardize>>
    /\ UNCHANGED dataVars
    /\ UNCHANGED restVars

NextCov == CreateCovariances

SpecCov == InitCov /\ [][NextCov]_vars

\* --------------------------------------------- claims: create_covariances

\* C20: every matrix create_covariances returns is symmetric, has trace 1
\* and has a strictly positive diagonal, with random weights and with the
\* structured weights, whose W.W^T is rank-deficient.
C20_NormalisedCovariances ==
    (lastOp = "create_covariances" /\ result = "ok") =>
        /\ Len(retval) = self.n_states
        /\ \A k \in 1..self.n_states :
            /\ \A i, j \in 1..self.n_channels :
                  retval[k][i][j] = retval[k][j][i]
            /\ NSum([i \in 1..self.n_channels |-> retval[k][i][i]]) = One
            /\ \A i \in 1..self.n_channels :
                  IsFinite(retval[k][i][i]) /\ NLess(Zero, retval[k][i][i])

\* the structured weights of two states on three channels: W.W^T of state 2
\* has the one entry (2, 2), and the diagonal elsewhere is
\* identity_factor / (1 + 3 identity_factor)
C20_Witness ==
    /\ lastOp = "create_covariances" /\ result = "ok"
    /\ ~self.random_covariance_weights
    /\ self.n_states = 2 /\ self.n_channels = 3
    /\ retval[2][1][1] = Mk(1, IdentityFactorInv + 3, 1)
    /\ retval[2][2][2] = Mk(IdentityFactorInv + 1, IdentityFactorInv + 3, 1)
    /\ retval[2][1][2] = Zero

\* -------------------------------------------------------- plotting utilities

\* no object is involved before a utility function is called
InitUtil ==
    /\ InitSim

\* the plots rough_square_axes is asked to arrange: 1..MaxPlots
MaxPlots == 120

\* the largest s of lo..hi with s * s <= n
RECURSIVE FloorSqrtIn(_, _, _)
FloorSqrtIn(n, lo, hi) ==
    IF lo = hi THEN lo
    ELSE IF ((lo + hi + 1) \div 2) * ((lo + hi + 1) \div 2) <= n
         THEN FloorSqrtIn(n, (lo + hi + 1) \div 2, hi)
         ELSE FloorSqrtIn(n, lo, ((lo + hi + 1) \div 2) - 1)

\* np.floor(n**0.5), for an n of 32 bits
FloorSqrt(n) == FloorSqrtIn(n, 0, IF n > 46340 THEN 46340 ELSE n)

\* np.ceil(n**0.5)
CeilSqrt(n) ==
    IF FloorSqrt(n) * FloorSqrt(n) = n THEN FloorSqrt(n) ELSE FloorSqrt(n) + 1

\* rough_square_axes without the correction of the short side
roughSquareAxesUncorrected(n_plots) ==
    LET long  == FloorSqrt(n_plots)
        short == CeilSqrt(n_plots)
    IN  <<short, long, short * long - n_plots>>

\* rough_square_axes(n_plots): the tuple (short, long, empty) it returns
rough_square_axes(n_plots) ==
    LET long   == FloorSqrt(n_plots)
        short0 == CeilSqrt(n_plots)
        short  == IF short0 * long < n_plots THEN short0 + 1 ELSE short0
        empty  == short * long - n_plots
    IN  <<short, long, empty>>

\* short, long, empty = rough_square_axes(n_plots)
RoughSquareAxes ==
    /\ \E n_plots \in 1..MaxPlots :
        call' = [fn |-> "rough_square_axes", n_plots |-> n_plots,
                 val |-> rough_square_axes(n_plots)]
    /\ UNCHANGED simVars
    /\ UNCHANGED dataVars
    /\ UNCHANGED <<obsVars, twin>>

NextAxes == RoughSquareAxes

SpecAxes == InitUtil /\ [][NextAxes]_vars

\* ------------------------------------------------ claims: rough_square_axes

\* C19: rough_square_axes(n_plots) returns (short, long, empty) with short
\* the number of axes on the short side and long the number on the long
\* side: short <= long for every n_plots >= 1.
C19_ShortIsShort ==
    (call # NoObject /\ call.fn = "rough_square_axes") =>
        call.val[1] <= call.val[2]

\* C28: for every n_plots >= 1 the grid returned by rough_square_axes holds
\* all plots with less than one spare row: short * long >= n_plots,
\* empty = short * long - n_plots, 0 <= empty < long, and the two side
\* lengths differ by at most 2.
C28_GridHoldsPlots ==
    (call # NoObject /\ call.fn = "rough_square_axes") =>
        LET short == call.val[1]
            long  == call.val[2]
            empty == call.val[3]
        IN  /\ short * long >= call.n_plots
            /\ empty = short * long - call.n_plots
            /\ 0 <= empty
            /\ empty < long
            /\ short - long <= 2
            /\ long - short <= 2

\* seven plots: a grid of 4 by 2 with one spare axis, the short side having
\* been increased past ceil(sqrt(7)) = 3
C28_Witness ==
    /\ call # NoObject
    /\ call.fn = "rough_square_axes"
    /\ call.n_plots = 7
    /\ call.val = <<4, 2, 1>>

\* ------------------------------------------ plot_line, plot_scatter, plot_hist

\* the lists passed hold at most MaxLines arrays
MaxLines == 2

Min(a, b) == IF a < b THEN a ELSE b

\* the labels argument: None, one str, or a list of len labels
LabelsArgs ==
    {[kind |-> "None", len |-> 0], [kind |-> "str", len |-> 1]}
        \cup {[kind |-> "list", len |-> l] : l \in 0..MaxLines}

\* an optional list argument (errors, markers, annotate of plot_scatter):
\* None or a list of len elements
ListArgs ==
    {[given |-> FALSE, len |-> 0]}
        \cup {[given |-> TRUE, len |-> l] : l \in 0..MaxLines}

\* the errors argument of plot_line: None, or a list of n lists, the first
\* two of min and max elements
ErrorsArgs ==
    {[given |-> FALSE, n |-> 0, min |-> 0, max |-> 0],
     [given |-> TRUE, n |-> 1, min |-> 0, max |-> 0]}
        \cup {[given |-> TRUE, n |-> 2, min |-> a, max |-> b] :
                 a \in 0..MaxLines, b \in 0..MaxLines}

\* the ax argument: None, one axis, or an array of axes
AxArgs == {"None", "axis", "ndarray"}

\* the filename argument
FilenameArgs == {"None", "str"}

\* a call that raised before create_figure and before anything was drawn
Raised(err) == [err |-> err, create_fig |-> FALSE, n_drawn |-> 0]

\* len(labels) after the validation of labels, for n lines: a str has become
\* a list of one, None a list of n
LabelsLen(labels, n) == IF labels.kind = "str" THEN 1 ELSE n

\* plot_line(x, y, labels, errors, ax=ax, filename=filename) for len(x) = x
\* and len(y) = y: [err, create_fig, n_drawn], n_drawn the calls of ax.plot
plot_line(x, y, labels, errors, ax, filename) ==
    IF x # y THEN Raised("ValueError")
    ELSE IF labels.kind = "list" /\ labels.len # x THEN Raised("ValueError")
    ELSE IF errors.given /\ errors.n # 2 THEN Raised("ValueError")
    ELSE IF errors.given /\ (errors.min # x \/ errors.max # x)
         THEN Raised("ValueError")
    ELSE IF ax # "None" /\ filename # "None" THEN Raised("ValueError")
    ELSE IF ax = "ndarray" THEN Raised("ValueError")
    \* zip(x, y, labels, errors_min, errors_max) ends with its shortest
    ELSE [err |-> "ok", create_fig |-> (ax = "None"),
          n_drawn |-> Min(x, LabelsLen(labels, x))]

\* plot_scatter(x, y, labels, errors, markers, annotate, ax=ax,
\* filename=filename): n_drawn the calls of ax.scatter
plot_scatter(x, y, labels, errors, markers, annotate, ax, filename) ==
    IF x # y THEN Raised("ValueError")
    ELSE IF labels.kind = "list" /\ labels.len # x THEN Raised("ValueError")
    ELSE IF markers.given /\ markers.len # x THEN Raised("ValueError")
    ELSE IF annotate.given /\ annotate.len # x THEN Raised("ValueError")
    ELSE IF ax # "None" /\ filename # "None" THEN Raised("ValueError")
    ELSE IF ax = "ndarray" THEN Raised("ValueError")
    ELSE LET L == LabelsLen(labels, x)
             E == IF errors.given THEN errors.len ELSE x
         IN  \* for i in range(len(x)): labels[i] is read before ax.scatter
             \* is called, errors[i] after it
             IF L < x /\ L <= E
             THEN [err |-> "IndexError", create_fig |-> (ax = "None"),
                   n_drawn |-> L]
             ELSE IF E < x
             THEN [err |-> "IndexError", create_fig |-> (ax = "None"),
                   n_drawn |-> E + 1]
             ELSE [err |-> "ok", create_fig |-> (ax = "None"), n_drawn |-> x]

\* plot_hist(data, bins, labels, ax=ax, filename=filename) for
\* len(data) = data_: n_drawn the calls of ax.hist
plot_hist(data_, bins, labels, ax, filename) ==
    IF data_ # bins THEN Raised("ValueError")
    ELSE IF labels.kind = "list" /\ labels.len # data_
         THEN Raised("ValueError")
    ELSE IF ax # "None" /\ filename # "None" THEN Raised("ValueError")
    ELSE IF ax = "ndarray" THEN Raised("ValueError")
    \* zip(data, bins, labels) ends with its shortest
    ELSE [err |-> "ok", create_fig |-> (ax = "None"),
          n_drawn |-> Min(data_, LabelsLen(labels, data_))]

\* plot_line(x, y, labels=..., errors=..., ax=..., filename=...)
PlotLine ==
    /\ call = NoObject
    /\ \E x \in 0..MaxLines, y \in 0..MaxLines, labels \in LabelsArgs,
          errors \in ErrorsArgs, ax \in AxArgs, filename \in FilenameArgs :
        call' = [fn |-> "plot_line", lines |-> x, partners |-> y,
                 labels |-> labels, errors |-> errors, ax |-> ax,
                 filename |-> filename,
                 out |-> plot_line(x, y, labels, errors, ax, filename)]
    /\ UNCHANGED simVars
    /\ UNCHANGED dataVars
    /\ UNCHANGED <<obsVars, twin>>

\* plot_scatter(x, y, labels=..., errors=..., markers=..., annotate=...,
\* ax=..., filename=...)
PlotScatter ==
    /\ call = NoObject
    /\ \E x \in 0..MaxLines, y \in 0..MaxLines, labels \in LabelsArgs,
          errors \in ListArgs, markers \in ListArgs, annotate \in ListArgs,
          ax \in AxArgs, filename \in FilenameArgs :
        call' = [fn |-> "plot_scatter", lines |-> x, partners |-> y,
                 labels |-> labels, errors |-> errors, markers |-> markers,
                 annotate |-> annotate, ax |-> ax, filename |-> filename,
                 out |-> plot_scatter(x, y, labels, errors, markers,
                                      annotate, ax, filename)]
    /\ UNCHANGED simVars
    /\ UNCHANGED dataVars
    /\ UNCHANGED <<obsVars, twin>>

\* plot_hist(data, bins, labels=..., ax=..., filename=...)
PlotHist ==
    /\ call = NoObject
    /\ \E data_ \in 0..MaxLines, bins \in 0..MaxLines, labels \in LabelsArgs,
          ax \in AxArgs, filename \in FilenameArgs :
        call' = [fn |-> "plot_hist", lines |-> data_, partners |-> bins,
                 labels |-> labels, ax |-> ax, filename |-> filename,
                 out |-> plot_hist(data_, bins, labels, ax, filename)]
    /\ UNCHANGED simVars
    /\ UNCHANGED dataVars
    /\ UNCHANGED <<obsVars, twin>>

\* the call of one plotting function is followed
NextPlot ==
    \/ PlotLine
    \/ PlotScatter
    \/ PlotHist

SpecPlot == InitUtil /\ [][NextPlot]_vars

\* ------------------------------------------------- claims: plot functions

\* the parallel inputs of the call disagree in length: x and y (data and
\* bins), or the labels and the lines, a single str standing for one label
LengthsDisagree ==
    \/ call.lines # call.partners
    \/ call.labels.kind = "list" /\ call.labels.len # call.lines
    \/ call.labels.kind = "str" /\ call.lines > 1

\* C18: plot_line, plot_scatter and plot_hist raise ValueError, before a
\* figure is created or anything is drawn, whenever the parallel inputs
\* disagree in length, and no call returns normally having drawn fewer
\* lines than it was given, a single str of labels for more than one line
\* included.
C18_FailFast ==
    (call # NoObject /\ call.fn \in {"plot_line", "plot_scatter", "plot_hist"})
        =>  /\ LengthsDisagree =>
                /\ call.out.err = "ValueError"
                /\ ~call.out.create_fig
                /\ call.out.n_drawn = 0
            /\ call.out.err = "ok" => call.out.n_drawn = call.lines

\* ------------------------------------------------------------ mode matching

\* modes and samples of the time courses that are matched
MatchMaxModes == 3
MatchMaxSamples == 3

\* mixing coefficients are multiples of 1 / AlphaUnit
AlphaUnit == 3

\* correlations are kept in units of 1 / CorrScale, rounded towards zero
CorrScale == 100

\* the rows of a mode time course: K coefficients that sum to one
AlphaRows(K) == {r \in [1..K -> 0..AlphaUnit] : SumSeq(r) = AlphaUnit}

\* a[:, j]
Column(a, j) == [t \in 1..Len(a) |-> a[t][j]]

\* a[:, order]
Reorder(a, order) ==
    [t \in 1..Len(a) |-> [j \in 1..Len(order) |-> a[t][order[j]]]]

\* n^2 times the covariance of two columns of n samples
Covariance(x, y) ==
    Len(x) * SumSeq([t \in 1..Len(x) |-> x[t] * y[t]]) - SumSeq(x) * SumSeq(y)

\* the column does not vary: its correlation with any column is undefined
Constant(x) == Covariance(x, x) = 0

\* the Pearson correlation of two columns that vary
Pearson(x, y) ==
    LET c == Covariance(x, y)
        v == Covariance(x, x) * Covariance(y, y)
        m == FloorSqrt((c * c * CorrScale * CorrScale) \div v)
    IN  IF c < 0 THEN -m ELSE m

\* the orders of K modes
ModeOrders(K) ==
    {p \in [1..K -> 1..K] : \A i, j \in 1..K : p[i] = p[j] => i = j}

\* p is before q in the lexicographic order
PermBefore(p, q) ==
    \E i \in 1..Len(p) : p[i] < q[i] /\ \A j \in 1..(i - 1) : p[j] = q[j]

\* the sum of the correlations of the pairs matched the worst
ScoreNegated(M, order) == -SumSeq([j \in 1..Len(order) |-> M[j][order[j]]])

\* the sum of the correlations of ground-truth mode j and inferred mode
\* order[j]
Score(M, order) == SumSeq([j \in 1..Len(order) |-> M[j][order[j]]])

\* the order matched, given the set of <<score, order>> of every order:
\* one of the highest score, the first or the last of them as tie_break says
BestOrder(scored, tie_break) ==
    LET top  == CHOOSE x \in scored : \A y \in scored : y[1] <= x[1]
        best == {x[2] : x \in {y \in scored : y[1] = top[1]}}
    IN  CHOOSE p \in best : \A q \in best \ {p} :
            IF tie_break = "first" THEN PermBefore(p, q) ELSE PermBefore(q, p)

\* match_modes(ground_truth, inferred): [err, order, ground_truth, inferred],
\* both time courses as returned.  tie_break is the rule the implementation
\* has for orders of equal score, the first or the last of them.
match_modes(ground_truth, inferred, tie_break) ==
    LET K == Len(ground_truth[1])
        M == [i \in 1..K |-> [j \in 1..K |->
                Pearson(Column(ground_truth, i), Column(inferred, j))]]
    IN  IF \E j \in 1..K : \/ Constant(Column(ground_truth, j))
                           \/ Constant(Column(inferred, j))
        THEN [err |-> "undefined"]
        ELSE CHOOSE r \in
                {[err |-> "ok", order |-> BestOrder(scored, tie_break),
                  ground_truth |-> ground_truth,
                  inferred |-> Reorder(inferred,
                                       BestOrder(scored, tie_break))] :
                    scored \in {{<<Score(M, p), p>> : p \in ModeOrders(K)}}} :
                TRUE

\* sim_alp, inf_alp = modes.match_modes(sim_alp, inf_alp), for an inferred
\* time course that is the ground truth with its columns in the order perm
MatchModes ==
    /\ call = NoObject
    /\ \E K \in 2..MatchMaxModes, T \in 2..MatchMaxSamples :
        \E ground_truth \in [1..T -> AlphaRows(K)], perm \in ModeOrders(K),
           tie_break \in {"first", "last"} :
            call' = [fn |-> "match_modes", ground_truth |-> ground_truth,
                     inferred |-> Reorder(ground_truth, perm), perm |-> perm,
                     tie_break |-> tie_break,
                     out |-> match_modes(ground_truth,
                                 Reorder(ground_truth, perm), tie_break)]
    /\ UNCHANGED simVars
    /\ UNCHANGED dataVars
    /\ UNCHANGED <<obsVars, twin>>

NextMatch == MatchModes

SpecMatch == InitUtil /\ [][NextMatch]_vars

\* --------------------------------------------------- claims: mode matching

Matched == call # NoObject /\ call.fn = "match_modes"

\* every column of the ground truth varies over time
Varying ==
    \A j \in 1..Len(call.perm) : ~Constant(Column(call.ground_truth, j))

\* no two columns of the ground truth are the same
DistinctColumns ==
    \A i, j \in 1..Len(call.perm) :
        i # j => Column(call.ground_truth, i) # Column(call.ground_truth, j)

\* no two columns of the ground truth have a Pearson correlation of 1
NoPerfectPair ==
    \A i, j \in 1..Len(call.perm) :
        i # j =>
            LET x == Column(call.ground_truth, i)
                y == Column(call.ground_truth, j)
            IN  ~(/\ Covariance(x, y) > 0
                  /\ Covariance(x, y) * Covariance(x, y)
                        = Covariance(x, x) * Covariance(y, y))

\* column j of both time courses returned is mode j of the ground truth
SameModes ==
    /\ call.out.err = "ok"
    /\ call.out.ground_truth = call.ground_truth
    /\ call.out.inferred = call.ground_truth
    /\ \A j \in 1..Len(call.perm) : call.perm[call.out.order[j]] = j

\* C17 as stated: matching two identical time courses returns them as they
\* are, and matching a column permutation of a ground truth with distinct
\* columns returns both with column j referring to the same mode (columns
\* that vary, so that every correlation is defined).
C17_DistinctColumns ==
    (Matched /\ Varying) =>
        /\ call.inferred = call.ground_truth =>
              /\ call.out.err = "ok"
              /\ call.out.ground_truth = call.ground_truth
              /\ call.out.inferred = call.inferred
        /\ DistinctColumns => SameModes

\* C17, amended: when every column varies and no two columns of the ground
\* truth are perfectly correlated, matching two identical time courses
\* returns the identity order, matching a column permutation returns both
\* with column j referring to the same mode (the inverse permutation), and
\* a second run on the same input returns the same.
C17_UncorrelatedColumns ==
    (Matched /\ Varying /\ NoPerfectPair) =>
        /\ SameModes
        /\ call.inferred = call.ground_truth =>
              call.out.order = [j \in 1..Len(call.perm) |-> j]
        /\ call.out = match_modes(call.ground_truth, call.inferred,
                                  call.tie_break)

\* three modes in the order (2, 3, 1), which is not its own inverse, have
\* been put back in the order of the ground truth
C17_Witness ==
    /\ Matched /\ Varying /\ NoPerfectPair
    /\ call.perm = <<2, 3, 1>>
    /\ call.out.order = <<3, 1, 2>>
    /\ call.inferred # call.ground_truth
    /\ call.out.inferred = call.ground_truth

\* ------------------------------------------------- claims: standardize()

\* standardize() has just returned on a Simulation that held data
Standardized ==
    /\ phase = "live" /\ self.time_series # None
    /\ lastOp' = "standardize" /\ result' = "ok"

\* every channel of the series varies: its standard deviation is not zero
ChannelsVary ==
    \A c \in 1..self.n_channels :
        IsFinite(ColStd(self.time_series, c))
            /\ ColStd(self.time_series, c) # Zero

\* every channel of the new series has mean 0 and standard deviation 1, and
\* every covariance is the old one over the product of the old standard
\* deviations of its row and column
ZTransformed ==
    /\ \A c \in 1..self.n_channels :
          /\ ColMean(self'.time_series, c) = Zero
          /\ ColStd(self'.time_series, c) = One
    /\ \A k \in 1..self.n_states : \A i, j \in 1..self.n_channels :
          self'.covariances[k][i][j] =
              NDiv(self.covariances[k][i][j],
                   NMul(ColStd(self.time_series, i),
                        ColStd(self.time_series, j)))

\* C21 as stated: a call of standardize() after data generation leaves
\* every channel with mean 0 and standard deviation 1 and divides
\* cov[k,i,j] by std_i * std_j, the standard deviations before the call.
C21_Standardized == [][Standardized => ZTransformed]_vars

\* C21, amended: the same, for a series every channel of which varies
\* (standard deviation not zero before the call).
C21_StandardizedVarying ==
    [][(Standardized /\ ChannelsVary) => ZTransformed]_vars

\* a first standardize() of two samples has rescaled series and covariances
C21_Witness ==
    /\ phase = "live" /\ lastOp = "standardize" /\ result = "ok"
    /\ n_standardize = 1
    /\ self.n_samples = 2
    /\ IsFinite(self.standard_deviations[1])
    /\ self.standard_deviations[1] \notin {Zero, One}
    /\ ColStd(self.time_series, 1) = One
    /\ ColMean(self.time_series, 1) = Zero

\* C26: standardize() on a Simulation whose data has not been generated
\* (simulate=False, simulate() not called) fails with an error and leaves
\* covariances, state_time_course and time_series as they were.
C26_StandardizeBeforeData ==
    [][(phase = "live" /\ self.time_series = None /\ lastOp' = "standardize")
        => /\ result' # "ok"
           /\ self'.covariances = self.covariances
           /\ self'.state_time_course = self.state_time_course
           /\ self'.time_series = self.time_series
           /\ DOMAIN self' = DOMAIN self]_vars

\* standardize() has failed on a Simulation built with simulate=False
C26_Witness ==
    /\ phase = "live" /\ ~args.simulate /\ n_simulate = 0
    /\ lastOp = "standardize" /\ result = "AxisError"
    /\ self.time_series = None /\ self.state_time_course = None
    /\ "means" \notin DOMAIN self

\* ------------------------------------------- the caller's covariance array

\* seeds of the Simulations built on a caller's array
AliasMaxSeed == 3

\* cov = <an array>; sim = Simulation(..., covariances=cov, simulate=True):
\* self.covariances = covariances (lines 61-63) binds the caller's array
\* itself, so call.covariances and self.covariances are one array
InitAlias ==
    /\ \E n_samples \in 1..MaxSamples, n_channels \in 1..MaxChannels,
          n_states \in 1..MaxStates, sim_varying_means \in BOOLEAN,
          kind \in {"dense", "diagonal"}, random_seed \in 0..AliasMaxSeed :
        \E r \in {SimulationInit(n_samples, n_channels, n_states,
                      sim_varying_means, kind, 1, FALSE, TRUE, random_seed)} :
            /\ r.err = "ok"
            /\ self = r.obj
            /\ sdlog = r.log
            /\ args = [covariances |-> kind, simulate |-> TRUE,
                       random_seed |-> random_seed]
            /\ call = [fn |-> "caller", covariances |-> r.obj.covariances]
    /\ phase = "live"
    /\ lastOp = "__init__"
    /\ result = "ok"
    /\ retval = <<>>
    /\ n_simulate = 0
    /\ n_standardize = 0
    /\ NoData
    /\ NoObs
    /\ twin = NoObject

\* sim.standardize(): self.covariances /= ... (lines 207-209) divides in
\* place, in the array the caller holds
AliasStandardize ==
    /\ phase = "live"
    /\ \E r \in {standardize(self)} :
           /\ result' = r.err
           /\ self' = IF r.err = "ok" THEN r.obj ELSE self
           /\ call' = IF r.err = "ok"
                      THEN [call EXCEPT !.covariances = r.obj.covariances]
                      ELSE call
           /\ n_standardize' = IF r.err = "ok" /\ n_standardize < 2
                               THEN n_standardize + 1 ELSE n_standardize
    /\ lastOp' = "standardize"
    /\ retval' = <<>>
    /\ UNCHANGED <<phase, args, sdlog, n_simulate>>
    /\ UNCHANGED dataVars
    /\ UNCHANGED <<obsVars, twin>>

NextAlias == AliasStandardize

SpecAlias == InitAlias /\ [][NextAlias]_vars

\* ------------------------------------- claims: the caller's covariance array

\* C27: standardize() changes only what the Simulation owns: the array the
\* caller passed as covariances holds after standardize() what it held
\* when it was passed.
C27_CallerArrayKept ==
    call.covariances =
        GivenCovariances(args.covariances, self.n_states, self.n_channels)

\* --------------------------------------------- claims: the Data collection

\* the identifier of every subject held is its position, counted from 1
IdsArePositions(obj) ==
    \A p \in DOMAIN obj.subjects : obj.subjects[p].id = p

\* C22: after any construction, add and remove calls n_subjects is the
\* number of subjects held, len(subjects) (for a Subject that add() can
\* construct).
C22_CountIsLength ==
    (dphase = "live" /\ "_ids" \in subject_kw) =>
        data.n_subjects = Len(data.subjects)

\* C23: construction gives the subjects the identifiers 1..n, and add() of
\* k subjects to n subjects whose identifiers are their positions gives the
\* new ones n+1..n+k in order.
C23_ConsecutiveIds ==
    [][/\ (dlastOp' = "__init__" /\ dresult' = "ok") => IdsArePositions(data')
       /\ (dphase = "live" /\ dlastOp' = "add" /\ dresult' = "ok"
              /\ IdsArePositions(data))
            => IdsArePositions(data')]_vars

\* C24: whenever prepared is True, every subject held has been through the
\* preparation step.
C24_PreparedMeansAll ==
    (dphase = "live" /\ data.prepared) =>
        \A p \in DOMAIN data.subjects : data.subjects[p].n_prepared >= 1

\* C25: prepare() with ids a string other than "all" raises ValueError and
\* leaves the subjects and the prepared flag as they were, prepared or not.
C25_UnknownIdsString ==
    [][(dphase = "live" /\ dlastOp' = "prepare" /\ dargs'.kind = "str"
          /\ dargs'.ids # "all")
        => /\ dresult' = "ValueError"
           /\ data' = data
           /\ prepare_runs' = prepare_runs]_vars

\* prepare(ids="none") has raised on data that was prepared
C25_Witness ==
    /\ dphase = "live" /\ data.prepared /\ prepare_runs = 1
    /\ dlastOp = "prepare" /\ dargs.kind = "str" /\ dargs.ids = "none"
    /\ dresult = "ValueError"

\* ----------------------------------------------------------------- Topology

\* sensors of a layout file, and the names sensors and data channels have
MaxSensors == 3
ChannelNames == {"MEG01", "MEG02", "MEG03", "MEG04"}

\* the lines of a .lay file: the names of its sensors, all different
LayFiles ==
    {f \in UNION {[1..n -> ChannelNames] : n \in 1..MaxSensors} :
        \A i, j \in DOMAIN f : i # j => f[i] # f[j]}

\* Topology.read_lay(filename): self.layout, a row per line of the file
\* with the columns of the file and present = True
read_lay(file) ==
    [i \in DOMAIN file |->
        [channel_id |-> i, x |-> i, y |-> -i, width |-> 1, height |-> 1,
         channel_name |-> file[i], present |-> TRUE]]

\* keep_channels that marks the channels named as present and the others
\* as absent
keepChannelsAssigningPresent(layout, channel_names) ==
    [i \in DOMAIN layout |->
        [layout[i] EXCEPT !.present = (layout[i].channel_name \in channel_names)]]

\* Topology.keep_channels(channel_names): self.layout after
\* layout.loc[~layout["channel_name"].isin(channel_names), "present"] = False
keep_channels(layout, channel_names) ==
    [i \in DOMAIN layout |->
        IF layout[i].channel_name \notin channel_names
        THEN [layout[i] EXCEPT !.present = FALSE]
        ELSE layout[i]]

\* layout.loc[layout["present"]]
PresentRows(layout) == SelectSeq(layout, LAMBDA r : r.present)

\* Topology.sensor_positions, sensor_names, channel_ids
sensor_positions(layout) ==
    [i \in DOMAIN PresentRows(layout) |->
        <<PresentRows(layout)[i].x, PresentRows(layout)[i].y>>]

sensor_names(layout) ==
    [i \in DOMAIN PresentRows(layout) |-> PresentRows(layout)[i].channel_name]

channel_ids(layout) ==
    [i \in DOMAIN PresentRows(layout) |-> PresentRows(layout)[i].channel_id]

\* topology = Topology(layout): call holds the instance's layout, and in
\* named the names that were in every list passed to keep_channels so far
InitTopology ==
    /\ self = NoObject
    /\ phase = "new"
    /\ args = NoObject
    /\ lastOp = "none"
    /\ result = "ok"
    /\ retval = <<>>
    /\ sdlog = None
    /\ n_simulate = 0
    /\ n_standardize = 0
    /\ NoData
    /\ NoObs
    /\ twin = NoObject
    /\ \E file \in LayFiles :
        call = [fn |-> "Topology", layout |-> read_lay(file),
                named |-> ChannelNames, n_keep |-> 0]

\* keep_channels calls the model follows on one Topology
MaxKeep == 2

\* topology.keep_channels(channel_names)
KeepChannels ==
    /\ call.n_keep < MaxKeep
    /\ \E channel_names \in SUBSET ChannelNames :
        call' = [call EXCEPT
                    !.layout = keep_channels(call.layout, channel_names),
                    !.named = @ \cap channel_names,
                    !.n_keep = @ + 1]
    /\ UNCHANGED simVars
    /\ UNCHANGED dataVars
    /\ UNCHANGED <<obsVars, twin>>

NextTopology == KeepChannels

SpecTopology == InitTopology /\ [][NextTopology]_vars

\* --------------------------------------------------------- claims: Topology

\* the rows of the layout whose name is in every list passed so far
NamedRows(c) == SelectSeq(c.layout, LAMBDA r : r.channel_name \in c.named)

\* C30: keep_channels only removes channels: after any keep_channels calls
\* the present channels are those of the layout named in every list passed,
\* an absent channel is never present again, no row of the layout is
\* deleted or changed otherwise, and sensor_positions, sensor_names and
\* channel_ids report the present channels.
C30_KeepOnlyRemoves ==
    [][/\ DOMAIN call'.layout = DOMAIN call.layout
       /\ \A i \in DOMAIN call.layout :
            /\ call'.layout[i].present
                  <=> call'.layout[i].channel_name \in call'.named
            /\ ~call.layout[i].present => ~call'.layout[i].present
            /\ [call'.layout[i] EXCEPT !.present = TRUE]
                  = [call.layout[i] EXCEPT !.present = TRUE]
       /\ sensor_names(call'.layout)
            = [i \in DOMAIN NamedRows(call') |-> NamedRows(call')[i].channel_name]
       /\ channel_ids(call'.layout)
            = [i \in DOMAIN NamedRows(call') |-> NamedRows(call')[i].channel_id]
       /\ sensor_positions(call'.layout)
            = [i \in DOMAIN NamedRows(call') |->
                  <<NamedRows(call')[i].x, NamedRows(call')[i].y>>]]_vars

\* after two keep_channels calls on a layout of three sensors the one
\* channel named in both lists is reported, the other two are absent
C30_Witness ==
    /\ call # NoObject /\ call.fn = "Topology" /\ call.n_keep = 2
    /\ Len(call.layout) = 3
    /\ call.named = {"MEG02"}
    /\ sensor_names(call.layout) = <<"MEG02">>
    /\ channel_ids(call.layout) = <<2>>
    /\ ~call.layout[1].present /\ ~call.layout[3].present

\* ------------------------------------------------------ plot_mode_lifetimes

\* the arrays passed have at most MaxRank axes of 1..MaxAxisLen entries each
MaxRank == 4

MaxAxisLen == 3

\* mode_time_course.shape of the arrays passed: ndim = Len(shape)
Shapes == UNION {[1..r -> 1..MaxAxisLen] : r \in 0..MaxRank}

\* the function left by an exception: no figure
LifetimesRaised(err) ==
    [err |-> err, one_hot |-> FALSE, n_plots |-> 0, grid |-> <<0, 0, 0>>]

\* plot_mode_lifetimes(mode_time_course), in the order of its statements:
\* n_plots = mode_time_course.shape[1] and the grid are computed first,
\* then a 1-D input is converted by get_one_hot (to 2-D), then ndim != 2
\* raises, then the figure of short by long axes is created.
plot_mode_lifetimes(shape) ==
    IF Len(shape) < 2
    THEN LifetimesRaised("IndexError: tuple index out of range")
    ELSE LET n_plots == shape[2]
             grid    == rough_square_axes(n_plots)
             one_hot == Len(shape) = 1
             ndim    == IF one_hot THEN 2 ELSE Len(shape)
         IN  IF ndim # 2
             THEN LifetimesRaised(
                      "ValueError: mode_timecourse must be a 2D array")
             ELSE [err |-> "None", one_hot |-> one_hot,
                   n_plots |-> n_plots, grid |-> grid]

\* fig, axes = plot_mode_lifetimes(mode_time_course)
PlotModeLifetimes ==
    /\ call = NoObject
    /\ \E shape \in Shapes :
        call' = [fn |-> "plot_mode_lifetimes", shape |-> shape,
                 out |-> plot_mode_lifetimes(shape)]
    /\ UNCHANGED simVars
    /\ UNCHANGED dataVars
    /\ UNCHANGED <<obsVars, twin>>

NextLifetimes == PlotModeLifetimes

SpecLifetimes == InitUtil /\ [][NextLifetimes]_vars

\* ---------------------------------------------- claims: plot_mode_lifetimes

\* C29: plot_mode_lifetimes accepts a 1-D mode time course by converting it
\* to a one-hot 2-D time course, accepts a 2-D time course as given, and for
\* any other rank raises the ValueError "mode_timecourse must be a 2D
\* array"; no input of wrong rank fails with a different error before this
\* validation runs.
C29_RankValidation ==
    (call # NoObject /\ call.fn = "plot_mode_lifetimes") =>
        LET ndim == Len(call.shape)
        IN  /\ ndim = 1 => (call.out.err = "None" /\ call.out.one_hot)
            /\ ndim = 2 => (call.out.err = "None" /\ ~call.out.one_hot)
            /\ ndim \notin {1, 2} =>
                   call.out.err =
                       "ValueError: mode_timecourse must be a 2D array"

====
